---- MODULE Spec2Model ----
(***************************************************************************)
(* Model of the expense tracker client (src/src/App.tsx): the period       *)
(* filter of the Incomes and Expenses pages, the Salary page's             *)
(* calculateSalary, the App-level dashboard subscriptions and the          *)
(* Dashboard forecast.                                                     *)
(*                                                                         *)
(* Numbers.  A JavaScript number is modelled as an extended rational       *)
(* [n, d]: d > 0 is the finite value n/d in lowest terms, d = 0 is         *)
(* Infinity (n = 1), -Infinity (n = -1) or NaN (n = 0).  Binary rounding   *)
(* of finite doubles is not modelled: arithmetic on finite values is       *)
(* exact.                                                                  *)
(*                                                                         *)
(* Time.  An instant is a whole number of hours since 1970-01-01T00:00Z.   *)
(* The browser's time zone is a fixed offset of tz hours east of UTC (no   *)
(* daylight saving transitions).                                           *)
(***************************************************************************)
EXTENDS Integers, Sequences, FiniteSets, TLC

\* ------------------------------------------------------------------------
\* JavaScript values: number | string | undefined
\* ------------------------------------------------------------------------

Abs(x) == IF x < 0 THEN -x ELSE x

Sign(x) == IF x < 0 THEN -1 ELSE IF x > 0 THEN 1 ELSE 0

RECURSIVE Gcd(_, _)
Gcd(a, b) == IF b = 0 THEN a ELSE Gcd(b, a % b)

\* The number n/d (d > 0) in lowest terms; d = 0 gives Infinity, -Infinity, NaN.
Rat(n, d) ==
    IF d = 0 THEN [n |-> Sign(n), d |-> 0]
    ELSE LET s == IF d < 0 THEN -1 ELSE 1
             g == Gcd(Abs(n), Abs(d))
         IN  [n |-> (s * n) \div g, d |-> (s * d) \div g]

IntNum(i) == [n |-> i, d |-> 1]
Zero == IntNum(0)
NaN == [n |-> 0, d |-> 0]
PosInf == [n |-> 1, d |-> 0]
NegInf == [n |-> -1, d |-> 0]

IsNaN(x) == x.d = 0 /\ x.n = 0
IsFinite(x) == x.d > 0

\* x + y on numbers
NumAdd(x, y) ==
    IF IsNaN(x) \/ IsNaN(y) THEN NaN
    ELSE IF x.d = 0 /\ y.d = 0 THEN (IF x.n = y.n THEN x ELSE NaN)
    ELSE IF x.d = 0 THEN x
    ELSE IF y.d = 0 THEN y
    ELSE LET g == Gcd(x.d, y.d)
         IN  Rat(x.n * (y.d \div g) + y.n * (x.d \div g), x.d * (y.d \div g))

\* -x
NumNeg(x) == [n |-> -x.n, d |-> x.d]

\* x - y
NumSub(x, y) == NumAdd(x, NumNeg(y))

\* x * y
NumMul(x, y) ==
    IF IsNaN(x) \/ IsNaN(y) THEN NaN
    ELSE IF x.d = 0 \/ y.d = 0
         THEN (IF x.n = 0 \/ y.n = 0 THEN NaN ELSE [n |-> Sign(x.n) * Sign(y.n), d |-> 0])
    ELSE Rat(x.n * y.n, x.d * y.d)

\* x / y
NumDiv(x, y) ==
    IF IsNaN(x) \/ IsNaN(y) THEN NaN
    ELSE IF y.d = 0 THEN (IF x.d = 0 THEN NaN ELSE Zero)
    ELSE IF y.n = 0 THEN (IF x.n = 0 THEN NaN ELSE [n |-> Sign(x.n), d |-> 0])
    ELSE IF x.d = 0 THEN [n |-> Sign(x.n) * Sign(y.n), d |-> 0]
    ELSE Rat(x.n * y.d, x.d * y.n)

\* A JavaScript value: k is "num", "str" or "undef".
JsNum(x) == [k |-> "num", num |-> x, str |-> <<>>]
JsStr(s) == [k |-> "str", num |-> Zero, str |-> s]
JsUndef == [k |-> "undef", num |-> Zero, str |-> <<>>]

Digits == <<"0", "1", "2", "3", "4", "5", "6", "7", "8", "9">>
DigitChars == {Digits[i] : i \in 1..10}
DigitVal(c) == (CHOOSE i \in 1..10 : Digits[i] = c) - 1

RECURSIVE Pow10(_)
Pow10(k) == IF k = 0 THEN 1 ELSE 10 * Pow10(k - 1)

\* decimal digits of a natural number
RECURSIVE NatToChars(_)
NatToChars(i) == IF i < 10 THEN <<Digits[i + 1]>>
                 ELSE NatToChars(i \div 10) \o <<Digits[(i % 10) + 1]>>

\* Longest fraction the number-to-string conversion writes out.
MaxFracDigits == 6

\* digits of the fraction r/d (0 <= r < d), stopping when it terminates
RECURSIVE FracChars(_, _, _)
FracChars(r, d, k) ==
    IF r = 0 \/ k = 0 THEN <<>>
    ELSE <<Digits[((r * 10) \div d) + 1]>> \o FracChars((r * 10) % d, d, k - 1)

StrInfinity == <<"I", "n", "f", "i", "n", "i", "t", "y">>
StrNaN == <<"N", "a", "N">>
StrUndefined == <<"u", "n", "d", "e", "f", "i", "n", "e", "d">>

\* Number::toString
NumToString(x) ==
    IF IsNaN(x) THEN StrNaN
    ELSE IF x = PosInf THEN StrInfinity
    ELSE IF x = NegInf THEN <<"-">> \o StrInfinity
    ELSE LET a == Abs(x.n)
             ip == a \div x.d
             fr == FracChars(a % x.d, x.d, MaxFracDigits)
         IN  (IF x.n < 0 THEN <<"-">> ELSE <<>>) \o NatToChars(ip)
                \o (IF fr = <<>> THEN <<>> ELSE <<".">> \o fr)

\* String(v)
String(v) ==
    CASE v.k = "num" -> NumToString(v.num)
      [] v.k = "str" -> v.str
      [] OTHER -> StrUndefined

\* Number.prototype.toFixed(2): round half away from zero on the exact value
ToFixed2(x) ==
    IF IsNaN(x) THEN StrNaN
    ELSE IF x = PosInf THEN StrInfinity
    ELSE IF x = NegInf THEN <<"-">> \o StrInfinity
    ELSE LET a == Abs(x.n)
             c == (a \div x.d) * 100 + (200 * (a % x.d) + x.d) \div (2 * x.d)
         IN  (IF x.n < 0 THEN <<"-">> ELSE <<>>) \o NatToChars(c \div 100)
                \o <<".", Digits[((c % 100) \div 10) + 1], Digits[(c % 10) + 1]>>

RECURSIVE SkipWhite(_)
SkipWhite(s) == IF s # <<>> /\ Head(s) = " " THEN SkipWhite(Tail(s)) ELSE s

\* length of the longest prefix of s made of digits
RECURSIVE DigitRun(_)
DigitRun(s) == IF s # <<>> /\ Head(s) \in DigitChars THEN 1 + DigitRun(Tail(s)) ELSE 0

\* value of a sequence of digits
RECURSIVE DigitsVal(_)
DigitsVal(s) == IF s = <<>> THEN 0
                ELSE DigitsVal(SubSeq(s, 1, Len(s) - 1)) * 10 + DigitVal(s[Len(s)])

Drop(s, k) == SubSeq(s, k + 1, Len(s))
StartsWith(s, p) == Len(s) >= Len(p) /\ SubSeq(s, 1, Len(p)) = p

\* the element of a set of one element
The(S) == CHOOSE x \in S : TRUE

\* parseFloat from the exponent part on: s4 follows the digits and fraction
\* of mantissa mant / 10^nf
ParseFloatExponent(sg, mant, nf, s4) ==
    IF ~(s4 # <<>> /\ Head(s4) \in {"e", "E"}) THEN Rat(sg * mant, Pow10(nf))
    ELSE The({The({The({IF ne = 0 THEN Rat(sg * mant, Pow10(nf))
                        ELSE IF s5 # <<>> /\ Head(s5) = "-"
                        THEN Rat(sg * mant, Pow10(nf) * Pow10(DigitsVal(SubSeq(s6, 1, ne))))
                        ELSE Rat(sg * mant * Pow10(DigitsVal(SubSeq(s6, 1, ne))), Pow10(nf)) :
                            ne \in {DigitRun(s6)}}) :
                      s6 \in {IF s5 # <<>> /\ Head(s5) \in {"+", "-"} THEN Tail(s5) ELSE s5}}) :
                  s5 \in {Tail(s4)}})

\* parseFloat after the sign: s2 follows the sign sg
ParseFloatDecimal(sg, s2) ==
    IF StartsWith(s2, StrInfinity) THEN [n |-> sg, d |-> 0]
    ELSE The({The({The({IF ni = 0 /\ nf = 0 THEN NaN
                        ELSE ParseFloatExponent(
                                 sg,
                                 DigitsVal(SubSeq(s2, 1, ni)) * Pow10(nf)
                                     + (IF s3 # <<>> /\ Head(s3) = "."
                                        THEN DigitsVal(SubSeq(s3, 2, nf + 1)) ELSE 0),
                                 nf,
                                 IF s3 # <<>> /\ Head(s3) = "." THEN Drop(s3, nf + 1) ELSE s3) :
                            nf \in {IF s3 # <<>> /\ Head(s3) = "." THEN DigitRun(Tail(s3))
                                                                    ELSE 0}}) :
                      s3 \in {Drop(s2, ni)}}) :
                  ni \in {DigitRun(s2)}})

\* parseFloat(s): the longest prefix of the trimmed string that is a
\* StrDecimalLiteral, NaN when there is none
ParseFloat(s0) ==
    The({ParseFloatDecimal(IF s1 # <<>> /\ Head(s1) = "-" THEN -1 ELSE 1,
                           IF s1 # <<>> /\ Head(s1) \in {"+", "-"} THEN Tail(s1) ELSE s1) :
             s1 \in {SkipWhite(s0)}})

\* x || 0 on a number: NaN and 0 are falsy
OrZero(x) == IF IsNaN(x) \/ (x.d > 0 /\ x.n = 0) THEN Zero ELSE x

\* parseFloat(String(v)) || 0
ParseAmount(v) == The({OrZero(x) : x \in {ParseFloat(String(v))}})

\* ------------------------------------------------------------------------
\* Date: instants, the local calendar, the Date constructor
\* ------------------------------------------------------------------------

\* day number (days since 1970-01-01) of the proleptic Gregorian date y-m-d
DaysFromCivil(y0, m, d) ==
    LET y == IF m <= 2 THEN y0 - 1 ELSE y0
        era == y \div 400
        yoe == y - era * 400
        mp == IF m > 2 THEN m - 3 ELSE m + 9
        doy == (153 * mp + 2) \div 5 + d - 1
        doe == yoe * 365 + yoe \div 4 - yoe \div 100 + doy
    IN  era * 146097 + doe - 719468

\* the date [y, m, d] (m in 1..12) of a day number
CivilFromDays(z0) ==
    LET z == z0 + 719468
        era == z \div 146097
        doe == z - era * 146097
        yoe == (doe - doe \div 1460 + doe \div 36524 - doe \div 146096) \div 365
        doy == doe - (365 * yoe + yoe \div 4 - yoe \div 100)
        mp == (5 * doy + 2) \div 153
        d == doy - (153 * mp + 2) \div 5 + 1
        m == IF mp < 10 THEN mp + 3 ELSE mp - 9
    IN  [y |-> yoe + era * 400 + (IF m <= 2 THEN 1 ELSE 0), m |-> m, d |-> d]

\* the instant of hour h (UTC) of the date y-m-d
At(y, m, d, h) == DaysFromCivil(y, m, d) * 24 + h

\* local day number of instant t in the zone z hours east of UTC
LocalDay(t, z) == (t + z) \div 24

\* Date.prototype.getFullYear / getMonth (0..11) / getDate / getDay (0 = Sunday)
GetFullYear(t, z) == CivilFromDays(LocalDay(t, z)).y
GetMonth(t, z) == CivilFromDays(LocalDay(t, z)).m - 1
GetDate(t, z) == CivilFromDays(LocalDay(t, z)).d
GetDay(t, z) == (LocalDay(t, z) + 4) % 7

\* new Date(year, month, date): local midnight; month and date may be out of
\* range and are carried into the year and the month (MakeDay)
NewDate(year, month, date, z) ==
    (DaysFromCivil(year + month \div 12, (month % 12) + 1, 1) + date - 1) * 24 - z

\* A date field of a record: a Date (k = "date") or missing (k = "undef")
DateAt(t) == [k |-> "date", t |-> t]
NoDate == [k |-> "undef", t |-> 0]

\* (createdAt)?.getTime() || 0
GetTimeOrZero(dt) == IF dt.k = "date" THEN dt.t ELSE 0

\* ------------------------------------------------------------------------
\* State
\* ------------------------------------------------------------------------

VARIABLES
    now,                  \* the clock: what new Date() returns
    tz,                   \* the browser's zone, hours east of UTC
    currentPage,          \* App: currentPage
    incomeEntries,        \* Incomes: incomeEntries
    incomesFilterPeriod,  \* Incomes: filterPeriod
    filteredIncomes,      \* Incomes: filteredIncomes
    totalFilteredIncome,  \* Incomes: totalFilteredIncome
    incomesFresh,         \* Incomes: the clock has not moved since the filter effect ran
    expenseEntries,       \* Expenses: expenseEntries
    expensesFilterPeriod, \* Expenses: filterPeriod
    filteredExpenses,     \* Expenses: filteredExpenses
    totalFilteredExpense, \* Expenses: totalFilteredExpense
    expensesFresh,        \* Expenses: the clock has not moved since the filter effect ran
    salaryForm,           \* Salary: the form fields
    monthlyIncome,        \* Salary: monthlyIncome
    dailyIncome,          \* Salary: dailyIncome
    totalDeductions,      \* Salary: totalDeductions
    isActivelyEditing,    \* Salary: isActivelyEditing
    latestSalaryData,     \* Salary: latestSalaryDataRef.current
    totalBankBalance,     \* App: totalBankBalance
    totalIncome,          \* App: totalIncome
    totalExpenses,        \* App: totalExpenses
    salaryDetails,        \* App: salaryDetails
    upcomingIncome,       \* App: upcomingIncome
    monthlyNetCashFlow,   \* App: monthlyNetCashFlow
    incomesSnapshotDocs,  \* App: snapshot.docs of the incomes listener's last call
    upcomingFresh,        \* App: the clock has not moved since the incomes listener ran
    banksSnapshotDocs,    \* App: snapshot.docs of the banks listener's last call
    expensesSnapshotDocs, \* App: snapshot.docs of the expenses listener's last call
    user,                 \* App: user
    loading,              \* App: loading
    isGlobalLoading,      \* App: isGlobalLoading
    message,              \* App: message
    pageMessage,          \* the mounted page component's message
    pending,              \* the asynchronous operations awaiting their external call
    consoleErrors,        \* the number of console.error calls so far
    serverTime,           \* the store's clock, in ticks of 1 / TicksPerMs ms
    nextDocId,            \* the id the store gives the next new document
    banksStore,           \* the store: the user's banks collection
    bankAccounts,         \* Banks: bankAccounts
    banksForm,            \* Banks: showForm, isEditing, currentEditAccount and the fields
    incomesStore,         \* the store: the user's incomes collection
    incomesForm,          \* Incomes: showForm, isEditing, currentEditIncome and the fields
    expensesStore,        \* the store: the user's expenses collection
    expensesForm,         \* Expenses: showForm, isEditing, currentEditExpense and the fields
    confirmAnswers,       \* the answers window.confirm has returned so far
    salaryStore,          \* the store: the user's salary document
    profileStore,         \* the store: the user's profile document
    creationTick,         \* the store's clock when it created each document, by id
    profile,              \* Profile: isEditing, userName and the two summaries
    displayName,          \* the auth service: user.displayName
    history,              \* History: expenses, incomes, salaryDetails
    download,             \* the content of the last file the browser has saved, empty if none
    authPage,             \* Auth: isLoginMode, isLoading
    subscriptions,        \* the listeners registered and not yet unsubscribed
    firebase              \* the module's app, auth and db: set, or null after a failed start

\* the time zone and the services: no operation changes them
envVars == <<tz, firebase>>
timeVars == <<now, envVars>>
incomesVars == <<incomeEntries, incomesFilterPeriod, filteredIncomes,
                 totalFilteredIncome, incomesFresh>>
expensesVars == <<expenseEntries, expensesFilterPeriod, filteredExpenses,
                  totalFilteredExpense, expensesFresh>>
salaryVars == <<salaryForm, monthlyIncome, dailyIncome, totalDeductions,
                isActivelyEditing, latestSalaryData>>
appVars == <<totalBankBalance, totalIncome, totalExpenses, salaryDetails,
             upcomingIncome, monthlyNetCashFlow, incomesSnapshotDocs, upcomingFresh,
             banksSnapshotDocs, expensesSnapshotDocs>>
authVars == <<user, loading>>
opVars == <<isGlobalLoading, message, pageMessage, pending, consoleErrors>>
storeVars == <<serverTime, nextDocId, banksStore, incomesStore, expensesStore,
               salaryStore, profileStore, creationTick>>
historyVars == <<history, download>>
sessionVars == <<profile, displayName, historyVars, authPage, subscriptions>>
banksVars == <<bankAccounts, banksForm>>
formVars == <<incomesForm, expensesForm, confirmAnswers>>
extVars == <<authVars, opVars, storeVars, banksVars, formVars, sessionVars>>
baseVars == <<timeVars, currentPage, incomesVars, expensesVars, salaryVars, appVars>>
vars == <<now, tz, firebase, currentPage, incomesVars, expensesVars, salaryVars, appVars, extVars>>

\* app, auth and db after the module's try block: all set, or, when
\* JSON.parse or initializeApp threw, none; when getAuth threw, app alone;
\* when getFirestore threw, app and auth
Initialized == [app |-> TRUE, auth |-> TRUE, db |-> TRUE]
FailedStarts ==
    {[app |-> FALSE, auth |-> FALSE, db |-> FALSE],
     [app |-> TRUE, auth |-> FALSE, db |-> FALSE],
     [app |-> TRUE, auth |-> TRUE, db |-> FALSE]}

\* the users that may sign in; NoUser is the null user
Users == {"u1", "u2"}
NoUser == "null"

\* ------------------------------------------------------------------------
\* Bounds and inputs
\* ------------------------------------------------------------------------

\* Most documents in one pushed snapshot of a collection.
MaxEntries == 2

\* Hours of clock time a behaviour covers, from StartInstant on.
MaxHours == 200

\* Saturday 2023-12-30 00:00 UTC; the week of Sunday 2023-12-31 spans the
\* month and the year boundary.
StartInstant == At(2023, 12, 30, 0)

\* zones: Los Angeles (winter), UTC, Manila
Zones == {-8, 0, 8}

\* how far one step of the clock goes
ClockSteps == {8, 24}

Periods == {"day", "week", "month", "year", "all"}

\* documents the incomes collection may hold, in document id order
IncomeDocs == <<
    [id |-> 1, incomeAmount |-> JsNum(IntNum(100)),
     incomeDate |-> DateAt(At(2023, 12, 31, 0)), createdAt |-> DateAt(At(2023, 12, 1, 0))],
    [id |-> 2, incomeAmount |-> JsStr(<<"1", "2", ".", "5">>),
     incomeDate |-> DateAt(At(2024, 1, 7, 0)), createdAt |-> DateAt(At(2023, 12, 2, 0))],
    [id |-> 3, incomeAmount |-> JsUndef,
     incomeDate |-> DateAt(At(2023, 12, 30, 16)), createdAt |-> NoDate],
    [id |-> 4, incomeAmount |-> JsNum(IntNum(7)),
     incomeDate |-> NoDate, createdAt |-> DateAt(At(2023, 12, 2, 0))],
    [id |-> 5, incomeAmount |-> JsNum(Rat(1, 4)),
     incomeDate |-> DateAt(At(2023, 1, 3, 16)), createdAt |-> DateAt(At(2023, 1, 3, 0))] >>

\* documents the expenses collection may hold, in document id order
ExpenseDocs == <<
    [id |-> 1, expenseAmount |-> JsNum(IntNum(500)),
     expenseDate |-> DateAt(At(2024, 1, 1, 0)), createdAt |-> DateAt(At(2023, 12, 5, 0))],
    [id |-> 2, expenseAmount |-> JsStr(<<"4", "0", ".", "7", "5">>),
     expenseDate |-> DateAt(At(2023, 12, 31, 8)), createdAt |-> DateAt(At(2023, 12, 6, 0))],
    [id |-> 3, expenseAmount |-> JsNum(NaN),
     expenseDate |-> DateAt(At(2024, 1, 7, 8)), createdAt |-> DateAt(At(2023, 12, 5, 0))],
    [id |-> 4, expenseAmount |-> JsStr(<<"a", "b", "c">>),
     expenseDate |-> NoDate, createdAt |-> NoDate],
    [id |-> 5, expenseAmount |-> JsNum(Rat(999, 100)),
     expenseDate |-> DateAt(At(2022, 12, 31, 0)), createdAt |-> DateAt(At(2022, 12, 31, 0))] >>

\* the documents of docs whose index is in ids, in index order
RECURSIVE Pick(_, _, _)
Pick(docs, ids, i) ==
    IF i > Len(docs) THEN <<>>
    ELSE (IF i \in ids THEN <<docs[i]>> ELSE <<>>) \o Pick(docs, ids, i + 1)

\* the snapshots a collection listener may be handed: at most MaxEntries of
\* the documents, in document id order
Snapshots(docs) ==
    {Pick(docs, ids, 1) : ids \in {S \in SUBSET (1..Len(docs)) : Cardinality(S) <= MaxEntries}}

\* ------------------------------------------------------------------------
\* Incomes page
\* ------------------------------------------------------------------------

\* the entries left in the order of the snapshot
SortByCreatedAtUnsorted(s) == s

\* e put behind every element of the sorted sequence s that the comparator
\* dateB - dateA does not order after it
RECURSIVE InsertByCreatedAt(_, _)
InsertByCreatedAt(s, e) ==
    IF s = <<>> THEN <<e>>
    ELSE IF GetTimeOrZero(e.createdAt) - GetTimeOrZero(Head(s).createdAt) > 0
         THEN <<e>> \o s
         ELSE <<Head(s)>> \o InsertByCreatedAt(Tail(s), e)

\* entries.sort((a, b) => dateB - dateA): newest createdAt first, stable
RECURSIVE SortByCreatedAt(_)
SortByCreatedAt(s) ==
    IF s = <<>> THEN <<>>
    ELSE InsertByCreatedAt(SortByCreatedAt(SubSeq(s, 1, Len(s) - 1)), s[Len(s)])

\* SameDay without the comparison of the years
SameDayIgnoringYear(dt, t, z) ==
    /\ dt.k = "date"
    /\ GetDate(dt.t, z) = GetDate(t, z)
    /\ GetMonth(dt.t, z) = GetMonth(t, z)

\* the day branch's predicate on a date field
SameDay(dt, t, z) ==
    /\ dt.k = "date"
    /\ GetDate(dt.t, z) = GetDate(t, z)
    /\ GetMonth(dt.t, z) = GetMonth(t, z)
    /\ GetFullYear(dt.t, z) = GetFullYear(t, z)

\* SameWeek with the end of the week included
SameWeekInclusiveEnd(dt, t, z) ==
    LET startOfWeek == NewDate(GetFullYear(t, z), GetMonth(t, z),
                               GetDate(t, z) - GetDay(t, z), z)
        endOfWeek == NewDate(GetFullYear(t, z), GetMonth(t, z),
                             GetDate(t, z) + (6 - GetDay(t, z)) + 1, z)
    IN  /\ dt.k = "date"
        /\ dt.t >= startOfWeek
        /\ dt.t <= endOfWeek

\* the week branch's predicate on a date field
SameWeek(dt, t, z) ==
    LET startOfWeek == NewDate(GetFullYear(t, z), GetMonth(t, z),
                               GetDate(t, z) - GetDay(t, z), z)
        endOfWeek == NewDate(GetFullYear(t, z), GetMonth(t, z),
                             GetDate(t, z) + (6 - GetDay(t, z)) + 1, z)
    IN  /\ dt.k = "date"
        /\ dt.t >= startOfWeek
        /\ dt.t < endOfWeek

\* the month branch's predicate on a date field
SameMonth(dt, t, z) ==
    /\ dt.k = "date"
    /\ GetMonth(dt.t, z) = GetMonth(t, z)
    /\ GetFullYear(dt.t, z) = GetFullYear(t, z)

\* the year branch's predicate on a date field
SameYear(dt, t, z) ==
    /\ dt.k = "date"
    /\ GetFullYear(dt.t, z) = GetFullYear(t, z)

\* IncomesFilter whose 'all' branch drops the entries that have no date
IncomesFilterAllDated(entries, period, t, z) ==
    CASE period = "day" -> SelectSeq(entries, LAMBDA e : SameDay(e.incomeDate, t, z))
      [] period = "week" -> SelectSeq(entries, LAMBDA e : SameWeek(e.incomeDate, t, z))
      [] period = "month" -> SelectSeq(entries, LAMBDA e : SameMonth(e.incomeDate, t, z))
      [] period = "year" -> SelectSeq(entries, LAMBDA e : SameYear(e.incomeDate, t, z))
      [] OTHER -> SelectSeq(entries, LAMBDA e : e.incomeDate.k = "date")

\* Incomes, filter effect: the list `filtered` for the clock reading t
IncomesFilter(entries, period, t, z) ==
    CASE period = "day" -> SelectSeq(entries, LAMBDA e : SameDay(e.incomeDate, t, z))
      [] period = "week" -> SelectSeq(entries, LAMBDA e : SameWeek(e.incomeDate, t, z))
      [] period = "month" -> SelectSeq(entries, LAMBDA e : SameMonth(e.incomeDate, t, z))
      [] period = "year" -> SelectSeq(entries, LAMBDA e : SameYear(e.incomeDate, t, z))
      [] OTHER -> entries

\* filtered.reduce((sum, entry) => sum + (parseFloat(String(entry.incomeAmount)) || 0), 0)
RECURSIVE IncomesTotal(_)
IncomesTotal(filtered) ==
    IF filtered = <<>> THEN Zero
    ELSE NumAdd(IncomesTotal(SubSeq(filtered, 1, Len(filtered) - 1)),
                ParseAmount(filtered[Len(filtered)].incomeAmount))

\* IncomesFilterEffect that adds the sum to the total of the previous run
IncomesFilterEffectAccumulating(entries, period) ==
    LET filtered == IncomesFilter(entries, period, now, tz)
    IN  /\ filteredIncomes' = filtered
        /\ totalFilteredIncome' = NumAdd(totalFilteredIncome, IncomesTotal(filtered))
        /\ incomesFresh' = TRUE

\* IncomesFilterEffect with the total taken over all the entries
IncomesFilterEffectTotalOfAll(entries, period) ==
    LET filtered == IncomesFilter(entries, period, now, tz)
    IN  /\ filteredIncomes' = filtered
        /\ totalFilteredIncome' = IncomesTotal(entries)
        /\ incomesFresh' = TRUE

\* Incomes, filter effect, run for the entries and the period of the render
IncomesFilterEffect(entries, period) ==
    LET filtered == IncomesFilter(entries, period, now, tz)
    IN  /\ filteredIncomes' = filtered
        /\ totalFilteredIncome' = IncomesTotal(filtered)
        /\ incomesFresh' = TRUE

\* the Incomes component is not mounted
IncomesUnmounted ==
    /\ incomeEntries = <<>>
    /\ incomesFilterPeriod = "month"
    /\ filteredIncomes = <<>>
    /\ totalFilteredIncome = Zero
    /\ incomesFresh = FALSE

\* Incomes mounts: initial useState values, then the effects of the first render
IncomesMount ==
    /\ incomeEntries' = <<>>
    /\ incomesFilterPeriod' = "month"
    /\ IncomesFilterEffect(<<>>, "month")

\* Incomes unmounts: its state is discarded
IncomesUnmount ==
    /\ incomeEntries' = <<>>
    /\ incomesFilterPeriod' = "month"
    /\ filteredIncomes' = <<>>
    /\ totalFilteredIncome' = Zero
    /\ incomesFresh' = FALSE

\* Incomes, onSnapshot callback, and the filter effect the new entries trigger
IncomesOnSnapshot(snapshot) ==
    /\ currentPage = "incomes"
    /\ "Incomes" \in subscriptions
    /\ incomeEntries' = SortByCreatedAt(snapshot)
    /\ UNCHANGED incomesFilterPeriod
    /\ IncomesFilterEffect(SortByCreatedAt(snapshot), incomesFilterPeriod)
    /\ UNCHANGED <<extVars, timeVars, currentPage, expensesVars, salaryVars, appVars>>

\* Incomes, a period button: setFilterPeriod(p), and the filter effect
IncomesSetFilterPeriod(p) ==
    /\ currentPage = "incomes"
    /\ p # incomesFilterPeriod
    /\ incomesFilterPeriod' = p
    /\ UNCHANGED incomeEntries
    /\ IncomesFilterEffect(incomeEntries, p)
    /\ UNCHANGED <<extVars, timeVars, currentPage, expensesVars, salaryVars, appVars>>

\* ------------------------------------------------------------------------
\* Expenses page
\* ------------------------------------------------------------------------

\* Expenses, filter effect: the list `filtered` for the clock reading t
ExpensesFilter(entries, period, t, z) ==
    CASE period = "day" -> SelectSeq(entries, LAMBDA e : SameDay(e.expenseDate, t, z))
      [] period = "week" -> SelectSeq(entries, LAMBDA e : SameWeek(e.expenseDate, t, z))
      [] period = "month" -> SelectSeq(entries, LAMBDA e : SameMonth(e.expenseDate, t, z))
      [] period = "year" -> SelectSeq(entries, LAMBDA e : SameYear(e.expenseDate, t, z))
      [] OTHER -> entries

\* filtered.reduce((sum, entry) => sum + (parseFloat(String(entry.expenseAmount)) || 0), 0)
RECURSIVE ExpensesTotal(_)
ExpensesTotal(filtered) ==
    IF filtered = <<>> THEN Zero
    ELSE NumAdd(ExpensesTotal(SubSeq(filtered, 1, Len(filtered) - 1)),
                ParseAmount(filtered[Len(filtered)].expenseAmount))

\* Expenses, filter effect, run for the entries and the period of the render
ExpensesFilterEffect(entries, period) ==
    LET filtered == ExpensesFilter(entries, period, now, tz)
    IN  /\ filteredExpenses' = filtered
        /\ totalFilteredExpense' = ExpensesTotal(filtered)
        /\ expensesFresh' = TRUE

\* the Expenses component is not mounted
ExpensesUnmounted ==
    /\ expenseEntries = <<>>
    /\ expensesFilterPeriod = "month"
    /\ filteredExpenses = <<>>
    /\ totalFilteredExpense = Zero
    /\ expensesFresh = FALSE

\* Expenses mounts: initial useState values, then the effects of the first render
ExpensesMount ==
    /\ expenseEntries' = <<>>
    /\ expensesFilterPeriod' = "month"
    /\ ExpensesFilterEffect(<<>>, "month")

\* Expenses unmounts: its state is discarded
ExpensesUnmount ==
    /\ expenseEntries' = <<>>
    /\ expensesFilterPeriod' = "month"
    /\ filteredExpenses' = <<>>
    /\ totalFilteredExpense' = Zero
    /\ expensesFresh' = FALSE

\* Expenses, onSnapshot callback, and the filter effect the new entries trigger
ExpensesOnSnapshot(snapshot) ==
    /\ currentPage = "expenses"
    /\ "Expenses" \in subscriptions
    /\ expenseEntries' = SortByCreatedAt(snapshot)
    /\ UNCHANGED expensesFilterPeriod
    /\ ExpensesFilterEffect(SortByCreatedAt(snapshot), expensesFilterPeriod)
    /\ UNCHANGED <<extVars, timeVars, currentPage, incomesVars, salaryVars, appVars>>

\* Expenses, a period button: setFilterPeriod(p), and the filter effect
ExpensesSetFilterPeriod(p) ==
    /\ currentPage = "expenses"
    /\ p # expensesFilterPeriod
    /\ expensesFilterPeriod' = p
    /\ UNCHANGED expenseEntries
    /\ ExpensesFilterEffect(expenseEntries, p)
    /\ UNCHANGED <<extVars, timeVars, currentPage, incomesVars, salaryVars, appVars>>

\* ------------------------------------------------------------------------
\* Salary page
\* ------------------------------------------------------------------------

EmptyString == JsStr(<<>>)

\* v || dflt on a value: undefined, '', 0 and NaN are falsy
JsOr(v, dflt) ==
    IF \/ v.k = "undef"
       \/ (v.k = "str" /\ v.str = <<>>)
       \/ (v.k = "num" /\ (IsNaN(v.num) \/ v.num = Zero))
    THEN dflt ELSE v

\* s || dflt on an enumerated string field that is '' when missing
StrOr(s, dflt) == IF s = "" THEN dflt ELSE s

\* CalculatedMonthlyIncome with a month of 52 / 12 weeks
CalculatedMonthlyIncomeWeeksOfYear(parsedSalary, currentFrequency) ==
    CASE currentFrequency = "Weekly" ->
            NumMul(parsedSalary, NumDiv(IntNum(52), IntNum(12)))
      [] currentFrequency = "Fortnightly" ->
            NumMul(parsedSalary, NumDiv(NumDiv(IntNum(365), IntNum(14)), IntNum(12)))
      [] OTHER -> parsedSalary

\* calculateSalary: calculatedMonthlyIncome after the switch on the frequency
CalculatedMonthlyIncome(parsedSalary, currentFrequency) ==
    CASE currentFrequency = "Weekly" ->
            NumMul(parsedSalary, NumDiv(NumDiv(IntNum(365), IntNum(7)), IntNum(12)))
      [] currentFrequency = "Fortnightly" ->
            NumMul(parsedSalary, NumDiv(NumDiv(IntNum(365), IntNum(14)), IntNum(12)))
      [] OTHER -> parsedSalary

\* calculateSalary: workdaysInMonth and calculatedDailyIncome
CalculatedDailyIncome(calculatedMonthlyIncome, currentDayOffInMonth) ==
    LET workdaysInMonth == IF currentDayOffInMonth = "1" THEN 26 ELSE 22
    IN  IF workdaysInMonth > 0
        THEN NumDiv(calculatedMonthlyIncome, IntNum(workdaysInMonth))
        ELSE Zero

\* calculateSalary: calculatedTotalDeductions of the six parsed deductions
CalculatedTotalDeductions(parsedSss, parsedPhilhealth, parsedPagibig, parsedTax, parsedLoans, parsedVoluntary) ==
    NumAdd(NumAdd(NumAdd(NumAdd(NumAdd(parsedSss, parsedPhilhealth), parsedPagibig),
                         parsedTax), parsedLoans), parsedVoluntary)

\* calculateSalary: the values it hands to setMonthlyIncome, setDailyIncome
\* and setTotalDeductions
CalculateSalary(currentSalary, currentFrequency, currentDayOffInMonth, currentSss, currentPhilhealth, currentPagibig, currentTax, currentLoans, currentVoluntary) ==
    [monthlyIncome |->
        CalculatedMonthlyIncome(ParseAmount(currentSalary), currentFrequency),
     dailyIncome |->
        CalculatedDailyIncome(
            CalculatedMonthlyIncome(ParseAmount(currentSalary), currentFrequency),
            currentDayOffInMonth),
     totalDeductions |->
        CalculatedTotalDeductions(ParseAmount(currentSss), ParseAmount(currentPhilhealth),
                                  ParseAmount(currentPagibig), ParseAmount(currentTax),
                                  ParseAmount(currentLoans), ParseAmount(currentVoluntary))]

\* calculateSalary applied to the fields of a record or of the form
CalculateSalaryOf(r) ==
    CalculateSalary(r.salary, r.frequency, r.dayOffInMonth, r.sss, r.philhealth,
                    r.pagibig, r.tax, r.loans, r.voluntary)

\* the form as useState initialises it
InitialSalaryForm ==
    [salary |-> EmptyString, frequency |-> "Monthly", paydaySpecific |-> EmptyString,
     dayOffInMonth |-> "2", sss |-> EmptyString, philhealth |-> EmptyString,
     pagibig |-> EmptyString, tax |-> EmptyString, loans |-> EmptyString,
     voluntary |-> EmptyString]

\* a document snapshot of the salary document
SalaryDoc(data) == [exists |-> TRUE, data |-> data]
NoSalaryDoc == [exists |-> FALSE, data |-> InitialSalaryForm]

\* the form fields the snapshot callback sets from the stored record
SalaryFormOf(data) ==
    [salary |-> JsOr(data.salary, EmptyString),
     frequency |-> StrOr(data.frequency, "Monthly"),
     paydaySpecific |-> JsOr(data.paydaySpecific, EmptyString),
     dayOffInMonth |-> StrOr(data.dayOffInMonth, "2"),
     sss |-> JsOr(data.sss, EmptyString),
     philhealth |-> JsOr(data.philhealth, EmptyString),
     pagibig |-> JsOr(data.pagibig, EmptyString),
     tax |-> JsOr(data.tax, EmptyString),
     loans |-> JsOr(data.loans, EmptyString),
     voluntary |-> JsOr(data.voluntary, EmptyString)]

\* the Salary component is not mounted, or has just mounted
SalaryInitial ==
    /\ salaryForm = InitialSalaryForm
    /\ monthlyIncome = Zero
    /\ dailyIncome = Zero
    /\ totalDeductions = Zero
    /\ isActivelyEditing = FALSE
    /\ latestSalaryData = NoSalaryDoc

\* Salary mounts or unmounts: initial useState and useRef values
SalaryReset ==
    /\ salaryForm' = InitialSalaryForm
    /\ monthlyIncome' = Zero
    /\ dailyIncome' = Zero
    /\ totalDeductions' = Zero
    /\ isActivelyEditing' = FALSE
    /\ latestSalaryData' = NoSalaryDoc

\* the Salary snapshot callback applying every snapshot to the form, whether
\* or not the user is editing
SalaryOnSnapshotAlwaysApplied(docSnap) ==
    /\ currentPage = "salary"
    /\ "Salary" \in subscriptions
    /\ latestSalaryData' = docSnap
    /\ IF docSnap.exists
       THEN \E c \in {CalculateSalaryOf(docSnap.data)} :
                /\ salaryForm' = SalaryFormOf(docSnap.data)
                /\ monthlyIncome' = c.monthlyIncome
                /\ dailyIncome' = c.dailyIncome
                /\ totalDeductions' = c.totalDeductions
       ELSE /\ salaryForm' = InitialSalaryForm
            /\ monthlyIncome' = Zero
            /\ dailyIncome' = Zero
            /\ totalDeductions' = Zero
    /\ UNCHANGED isActivelyEditing
    /\ UNCHANGED <<extVars, timeVars, currentPage, incomesVars, expensesVars, appVars>>

\* Salary, onSnapshot callback of the salary document
SalaryOnSnapshot(docSnap) ==
    /\ currentPage = "salary"
    /\ "Salary" \in subscriptions
    /\ latestSalaryData' = docSnap
    /\ IF docSnap.exists
       THEN \E c \in {CalculateSalaryOf(IF isActivelyEditing THEN salaryForm
                                                             ELSE docSnap.data)} :
                /\ salaryForm' = IF isActivelyEditing THEN salaryForm
                                                      ELSE SalaryFormOf(docSnap.data)
                /\ monthlyIncome' = c.monthlyIncome
                /\ dailyIncome' = c.dailyIncome
                /\ totalDeductions' = c.totalDeductions
       ELSE IF isActivelyEditing
            THEN UNCHANGED <<salaryForm, monthlyIncome, dailyIncome, totalDeductions>>
            ELSE /\ salaryForm' = InitialSalaryForm
                 /\ monthlyIncome' = Zero
                 /\ dailyIncome' = Zero
                 /\ totalDeductions' = Zero
    /\ UNCHANGED <<isActivelyEditing, extVars, timeVars, currentPage, incomesVars, expensesVars,
                   appVars>>

\* ------------------------------------------------------------------------
\* App: the dashboard data effect's listeners
\* ------------------------------------------------------------------------

\* documents the banks collection may hold, in document id order
BankDocs == <<
    [id |-> 1, amount |-> JsNum(IntNum(1000))],
    [id |-> 2, amount |-> JsStr(<<"2", "5", "0", ".", "5">>)],
    [id |-> 3, amount |-> JsUndef],
    [id |-> 4, amount |-> JsNum(Rat(-301, 4))],
    [id |-> 5, amount |-> JsNum(Rat(1, 8))] >>

\* snapshot.docs.reduce((acc, doc) => acc + (parseFloat(String(doc.data().amount)) || 0), 0)
RECURSIVE BanksSum(_)
BanksSum(docs) ==
    IF docs = <<>> THEN Zero
    ELSE NumAdd(BanksSum(SubSeq(docs, 1, Len(docs) - 1)), ParseAmount(docs[Len(docs)].amount))

\* ExpensesSum over the expenses dated in the clock's year only
RECURSIVE ExpensesSumThisYear(_)
ExpensesSumThisYear(docs) ==
    IF docs = <<>> THEN Zero
    ELSE LET doc == docs[Len(docs)]
         IN  NumAdd(ExpensesSumThisYear(SubSeq(docs, 1, Len(docs) - 1)),
                    IF /\ doc.expenseDate.k = "date"
                       /\ GetFullYear(doc.expenseDate.t, tz) = GetFullYear(now, tz)
                    THEN ParseAmount(doc.expenseAmount)
                    ELSE Zero)

\* snapshot.docs.reduce(... expenseAmount ...)
RECURSIVE ExpensesSum(_)
ExpensesSum(docs) ==
    IF docs = <<>> THEN Zero
    ELSE NumAdd(ExpensesSum(SubSeq(docs, 1, Len(docs) - 1)),
                ParseAmount(docs[Len(docs)].expenseAmount))

\* StartOfToday as setUTCHours(0, 0, 0, 0) would give it
StartOfTodayUTC(t, z) == (t \div 24) * 24

\* today = new Date(); today.setHours(0, 0, 0, 0)
StartOfToday(t, z) == LocalDay(t, z) * 24 - z

\* the incomes listener's loop: currentTotal and currentUpcoming after docs
RECURSIVE IncomesScan(_, _)
IncomesScan(docs, today) ==
    IF docs = <<>> THEN [currentTotal |-> Zero, currentUpcoming |-> Zero]
    ELSE LET acc == IncomesScan(SubSeq(docs, 1, Len(docs) - 1), today)
             doc == docs[Len(docs)]
             incomeAmount == ParseAmount(doc.incomeAmount)
         IN  [currentTotal |-> NumAdd(acc.currentTotal, incomeAmount),
              currentUpcoming |->
                  IF doc.incomeDate.k = "date" /\ doc.incomeDate.t > today
                  THEN NumAdd(acc.currentUpcoming, incomeAmount)
                  ELSE acc.currentUpcoming]

\* EstimatedMonthlyGross with a fortnightly salary paid 26 times a year
EstimatedMonthlyGrossByPayments(data) ==
    LET grossSalary == ParseAmount(data.salary)
    IN  CASE data.frequency = "Weekly" ->
                NumMul(grossSalary, NumDiv(NumDiv(IntNum(365), IntNum(7)), IntNum(12)))
          [] data.frequency = "Fortnightly" ->
                NumMul(grossSalary, NumDiv(IntNum(26), IntNum(12)))
          [] OTHER -> grossSalary

\* the salary listener's estimatedMonthlyGross
EstimatedMonthlyGross(data) ==
    LET grossSalary == ParseAmount(data.salary)
    IN  CASE data.frequency = "Weekly" ->
                NumMul(grossSalary, NumDiv(NumDiv(IntNum(365), IntNum(7)), IntNum(12)))
          [] data.frequency = "Fortnightly" ->
                NumMul(grossSalary, NumDiv(NumDiv(IntNum(365), IntNum(14)), IntNum(12)))
          [] OTHER -> grossSalary

\* the salary listener's totalFixedDeductions
TotalFixedDeductions(data) ==
    NumAdd(NumAdd(NumAdd(NumAdd(NumAdd(ParseAmount(data.sss), ParseAmount(data.philhealth)),
                                ParseAmount(data.pagibig)), ParseAmount(data.tax)),
                  ParseAmount(data.loans)), ParseAmount(data.voluntary))

\* the salary listener's estimatedMonthlyNetSalary
EstimatedMonthlyNetSalary(data) ==
    NumSub(EstimatedMonthlyGross(data), TotalFixedDeductions(data))

\* App, banks listener
AppBanksOnSnapshot(snapshot) ==
    /\ user # NoUser
    /\ "App.banks" \in subscriptions
    /\ totalBankBalance' = BanksSum(snapshot)
    /\ banksSnapshotDocs' = snapshot
    /\ UNCHANGED <<totalIncome, totalExpenses, salaryDetails, upcomingIncome,
                   monthlyNetCashFlow, incomesSnapshotDocs, upcomingFresh,
                   expensesSnapshotDocs>>
    /\ UNCHANGED <<extVars, timeVars, currentPage, incomesVars, expensesVars, salaryVars>>

\* App, incomes listener
AppIncomesOnSnapshot(snapshot) ==
    LET r == IncomesScan(snapshot, StartOfToday(now, tz))
    IN  /\ user # NoUser
        /\ "App.incomes" \in subscriptions
        /\ totalIncome' = r.currentTotal
        /\ upcomingIncome' = r.currentUpcoming
        /\ incomesSnapshotDocs' = snapshot
        /\ upcomingFresh' = TRUE
        /\ UNCHANGED <<totalBankBalance, totalExpenses, salaryDetails, monthlyNetCashFlow,
                       banksSnapshotDocs, expensesSnapshotDocs>>
        /\ UNCHANGED <<extVars, timeVars, currentPage, incomesVars, expensesVars, salaryVars>>

\* App, expenses listener
AppExpensesOnSnapshot(snapshot) ==
    /\ user # NoUser
    /\ "App.expenses" \in subscriptions
    /\ totalExpenses' = ExpensesSum(snapshot)
    /\ expensesSnapshotDocs' = snapshot
    /\ UNCHANGED <<totalBankBalance, totalIncome, salaryDetails, upcomingIncome,
                   monthlyNetCashFlow, incomesSnapshotDocs, upcomingFresh,
                   banksSnapshotDocs>>
    /\ UNCHANGED <<extVars, timeVars, currentPage, incomesVars, expensesVars, salaryVars>>

\* App, salary listener
AppSalaryOnSnapshot(docSnap) ==
    /\ user # NoUser
    /\ "App.salary" \in subscriptions
    /\ salaryDetails' = docSnap
    /\ monthlyNetCashFlow' = IF docSnap.exists THEN EstimatedMonthlyNetSalary(docSnap.data)
                                               ELSE Zero
    /\ UNCHANGED <<totalBankBalance, totalIncome, totalExpenses, upcomingIncome,
                   incomesSnapshotDocs, upcomingFresh, banksSnapshotDocs,
                   expensesSnapshotDocs>>
    /\ UNCHANGED <<extVars, timeVars, currentPage, incomesVars, expensesVars, salaryVars>>

\* the App state before any snapshot, and with no user
AppInitial ==
    /\ totalBankBalance = Zero
    /\ totalIncome = Zero
    /\ totalExpenses = Zero
    /\ salaryDetails = NoSalaryDoc
    /\ upcomingIncome = Zero
    /\ monthlyNetCashFlow = Zero
    /\ incomesSnapshotDocs = <<>>
    /\ upcomingFresh = FALSE
    /\ banksSnapshotDocs = <<>>
    /\ expensesSnapshotDocs = <<>>

\* ------------------------------------------------------------------------
\* Dashboard
\* ------------------------------------------------------------------------

\* parseFloat(x.toFixed(2))
Balance(x) == ParseFloat(ToFixed2(x))

\* CurrentProjectedBalance with the running value rounded at each iteration
RECURSIVE CurrentProjectedBalanceRounded(_, _, _)
CurrentProjectedBalanceRounded(bankBalance, netCashFlow, i) ==
    IF i = 0 THEN bankBalance
    ELSE ParseFloat(ToFixed2(NumAdd(CurrentProjectedBalanceRounded(bankBalance, netCashFlow,
                                                                   i - 1), netCashFlow)))

\* currentProjectedBalance after i iterations of the loop
RECURSIVE CurrentProjectedBalance(_, _, _)
CurrentProjectedBalance(bankBalance, netCashFlow, i) ==
    IF i = 0 THEN bankBalance
    ELSE NumAdd(CurrentProjectedBalance(bankBalance, netCashFlow, i - 1), netCashFlow)

\* Dashboard: the Balance values of forecastData, 'Current' then 'Month 1'..'Month 6'
ForecastBalances(bankBalance, netCashFlow) ==
    [i \in 1..7 |-> Balance(CurrentProjectedBalance(bankBalance, netCashFlow, i - 1))]

\* what the Dashboard renders from the App state
ForecastData == ForecastBalances(totalBankBalance, monthlyNetCashFlow)

\* ------------------------------------------------------------------------
\* The store and the operations in progress
\* ------------------------------------------------------------------------

MaxPending == 2
MaxWrites == 3
MaxConsoleErrors == 1
MaxConfirms == 1
TicksPerMs == 2

\* the Firestore Timestamp of server time tick: milliseconds, and the
\* microseconds within the millisecond
Timestamp(tick) ==
    [k |-> "ts", t |-> tick \div TicksPerMs, us |-> (tick % TicksPerMs) * (1000 \div TicksPerMs)]

\* Timestamp.fromDate(date)
FromDate(dt) == [k |-> "ts", t |-> dt.t, us |-> 0]

\* the serverTimestamp() sentinel of a write
ServerTimestamp == [k |-> "serverTimestamp", t |-> 0, us |-> 0]

\* data.createdAt instanceof Timestamp ? data.createdAt.toDate()
\*                                     : (data.createdAt as Date) || undefined
ToDateOrUndefined(ts) == IF ts.k = "ts" THEN DateAt(ts.t) ELSE NoDate

\* createdAt of an edit: the entry's createdAt as a Timestamp, or
\* serverTimestamp() when the entry has none
CreatedAtOfEdit(createdAt) ==
    IF createdAt.k = "ts" THEN createdAt
    ELSE IF createdAt.k = "date" THEN FromDate(createdAt)
    ELSE ServerTimestamp

\* a timestamp field as the store commits it at server time tick
Committed(field, tick) == IF field.k = "serverTimestamp" THEN Timestamp(tick) ELSE field

\* setDoc(doc(collectionRef, id), data) committed at server time tick: the
\* document replaces the one of the same id, in document id order
SetDoc(store, id, data, tick) ==
    LET d == [data EXCEPT !.id = id,
                          !.createdAt = Committed(@, tick),
                          !.lastUpdated = Committed(@, tick)]
    IN  SelectSeq(store, LAMBDA x : x.id < id) \o <<d>> \o SelectSeq(store, LAMBDA x : x.id > id)

\* the operations in progress with the one of number n removed
Without(ops, op) == ops \ {op}

\* the lowest operation number not in use
FreeOpNumber == CHOOSE n \in 1..MaxPending : \A o \in pending : o.n # n

\* an operation of a page component that has started its external call
Operation(kind, target, data) ==
    [n |-> FreeOpNumber, kind |-> kind, mounted |-> TRUE, target |-> target, data |-> data]

\* the operations in progress once the page component shown is unmounted:
\* its setState calls no longer have an effect
Orphaned(ops) == {[o EXCEPT !.mounted = FALSE] : o \in ops}

\* a message state: '' or a text, which may end in an error's message
NoMessage == <<>>
Msg(text) == <<text>>

\* error.message of a rejected external call
ErrorMessages == {"Missing or insufficient permissions."}

\* ------------------------------------------------------------------------
\* Banks page
\* ------------------------------------------------------------------------

NoAccount == [id |-> 0]

\* Banks: the form as useState initialises it and as resetForm leaves it
BanksFormReset(showForm) ==
    [showForm |-> showForm, isEditing |-> FALSE, currentEditAccount |-> NoAccount,
     bankName |-> "", fullName |-> "", cardNumber |-> <<>>, expirationDate |-> "",
     amount |-> <<>>]

\* what the user may have typed into the bank form
BankInputs ==
    {[bankName |-> "BPI", fullName |-> "Ana", cardNumber |-> <<>>, amount |-> <<"1", "0", "0">>],
     [bankName |-> "BPI", fullName |-> "", cardNumber |-> <<"1", "2", "3">>,
      amount |-> <<"1", "0", "0">>],
     [bankName |-> "BDO", fullName |-> "Ana",
      cardNumber |-> <<"4", "1", "1", "1", "2", "2", "2", "2">>, amount |-> <<"-", "5">>],
     [bankName |-> "BDO", fullName |-> "Ana", cardNumber |-> <<>>, amount |-> <<>>],
     [bankName |-> "BDO", fullName |-> "Ana", cardNumber |-> <<>>, amount |-> <<"x">>]}

\* Banks: the card number input's onChange, e.target.value.replace(/\D/g, '').slice(0, 16)
CardNumberOnChange(value) ==
    LET digits == SelectSeq(value, LAMBDA c : c \in DigitChars)
    IN  SubSeq(digits, 1, IF Len(digits) < 16 THEN Len(digits) ELSE 16)

\* Banks: the onChange handlers of the form's inputs
BanksType(input) ==
    /\ currentPage = "banks"
    /\ banksForm.showForm
    /\ banksForm' = [banksForm EXCEPT !.bankName = input.bankName,
                                      !.fullName = input.fullName,
                                      !.cardNumber = CardNumberOnChange(input.cardNumber),
                                      !.amount = input.amount]
    /\ banksForm' # banksForm
    /\ UNCHANGED <<bankAccounts, baseVars, sessionVars, formVars, authVars, opVars, storeVars>>

\* Banks: the snapshot mapping of one document
BankAccountOf(doc) ==
    [doc EXCEPT !.createdAt = ToDateOrUndefined(@), !.lastUpdated = ToDateOrUndefined(@)]

\* Banks, onSnapshot callback: the documents mapped and sorted by createdAt
BanksOnSnapshot ==
    /\ currentPage = "banks"
    /\ "Banks" \in subscriptions
    /\ user # NoUser
    /\ bankAccounts' = SortByCreatedAt([i \in 1..Len(banksStore) |-> BankAccountOf(banksStore[i])])
    /\ bankAccounts' # bankAccounts
    /\ UNCHANGED <<banksForm, baseVars, sessionVars, formVars, authVars, opVars, storeVars>>

\* Banks: handleAddBankClick
HandleAddBankClick ==
    /\ currentPage = "banks"
    /\ ~banksForm.showForm
    /\ banksForm' = BanksFormReset(TRUE)
    /\ pageMessage' = NoMessage
    /\ UNCHANGED <<bankAccounts, baseVars, sessionVars, formVars, authVars, isGlobalLoading, message, pending, consoleErrors,
                   storeVars>>

\* Banks: handleEditBankClick(account); account.amount.toString() throws on a
\* missing amount and the handler then sets nothing
HandleEditBankClick(account) ==
    /\ currentPage = "banks"
    /\ account.amount.k # "undef"
    /\ banksForm' = [showForm |-> TRUE, isEditing |-> TRUE, currentEditAccount |-> account,
                     bankName |-> account.bankName, fullName |-> account.fullName,
                     cardNumber |-> IF account.last4Digits = <<"0", "0", "0", "0">>
                                    THEN <<>> ELSE account.last4Digits,
                     expirationDate |-> account.expirationDate,
                     amount |-> String(account.amount)]
    /\ pageMessage' = NoMessage
    /\ UNCHANGED <<bankAccounts, baseVars, sessionVars, formVars, authVars, isGlobalLoading, message, pending, consoleErrors,
                   storeVars>>

\* handleCloseForm with setShowForm(false) only, without resetForm
BanksHandleCloseFormWithoutReset ==
    /\ currentPage = "banks"
    /\ banksForm.showForm
    /\ banksForm' = [banksForm EXCEPT !.showForm = FALSE]
    /\ pageMessage' = NoMessage
    /\ UNCHANGED <<bankAccounts, baseVars, sessionVars, formVars, authVars, isGlobalLoading,
                   message, pending, consoleErrors, storeVars>>

\* Banks: handleCloseForm
BanksHandleCloseForm ==
    /\ currentPage = "banks"
    /\ banksForm.showForm
    /\ banksForm' = BanksFormReset(FALSE)
    /\ pageMessage' = NoMessage
    /\ UNCHANGED <<bankAccounts, baseVars, sessionVars, formVars, authVars, isGlobalLoading, message, pending, consoleErrors,
                   storeVars>>

\* cardNumber.slice(-4) without the test of the length
Last4DigitsAlwaysSliced(cardNumber) ==
    SubSeq(cardNumber, IF Len(cardNumber) >= 4 THEN Len(cardNumber) - 3 ELSE 1, Len(cardNumber))

\* handleSaveBank: last4Digits
Last4Digits(cardNumber) ==
    IF Len(cardNumber) >= 4 THEN SubSeq(cardNumber, Len(cardNumber) - 3, Len(cardNumber))
    ELSE <<"0", "0", "0", "0">>

\* handleSaveBank: the document handed to setDoc
BankDocOfForm(form) ==
    [id |-> 0, bankName |-> form.bankName, fullName |-> form.fullName,
     last4Digits |-> Last4Digits(form.cardNumber), expirationDate |-> form.expirationDate,
     amount |-> JsNum(ParseFloat(form.amount)),
     createdAt |-> IF form.isEditing /\ form.currentEditAccount.id # 0
                   THEN CreatedAtOfEdit(form.currentEditAccount.createdAt)
                   ELSE ServerTimestamp,
     lastUpdated |-> ServerTimestamp]

\* handleSaveBank with the loading flag set before the fields are validated
HandleSaveBankFlagFirst ==
    /\ currentPage = "banks"
    /\ banksForm.showForm
    /\ isGlobalLoading' = TRUE
    /\ IF banksForm.bankName = "" \/ banksForm.fullName = "" \/ banksForm.amount = <<>>
       THEN /\ pageMessage' = Msg("Please fill in Bank Name, Full Name, and Amount.")
            /\ UNCHANGED pending
       ELSE IF IsNaN(ParseFloat(banksForm.amount))
       THEN /\ pageMessage' = Msg("Amount must be a valid number.")
            /\ UNCHANGED pending
       ELSE /\ Cardinality(pending) < MaxPending
            /\ serverTime + Cardinality(pending) < MaxWrites
            /\ pageMessage' = NoMessage
            /\ pending' = pending \cup
                  {Operation("saveBank",
                             IF banksForm.isEditing /\ banksForm.currentEditAccount.id # 0
                             THEN banksForm.currentEditAccount.id ELSE 0,
                             BankDocOfForm(banksForm))}
    /\ UNCHANGED <<banksVars, baseVars, sessionVars, formVars, authVars, message, consoleErrors, storeVars>>

\* Banks: handleSaveBank up to its await
HandleSaveBank ==
    /\ currentPage = "banks"
    /\ banksForm.showForm
    /\ IF banksForm.bankName = "" \/ banksForm.fullName = "" \/ banksForm.amount = <<>>
       THEN /\ pageMessage' = Msg("Please fill in Bank Name, Full Name, and Amount.")
            /\ UNCHANGED <<isGlobalLoading, pending>>
       ELSE IF IsNaN(ParseFloat(banksForm.amount))
       THEN /\ pageMessage' = Msg("Amount must be a valid number.")
            /\ UNCHANGED <<isGlobalLoading, pending>>
       ELSE IF user = NoUser
       THEN /\ pageMessage' = Msg("Firebase or user not initialized. Cannot save data.")
            /\ isGlobalLoading' = FALSE
            /\ UNCHANGED pending
       ELSE /\ Cardinality(pending) < MaxPending
            /\ serverTime + Cardinality(pending) < MaxWrites
            /\ isGlobalLoading' = TRUE
            /\ pageMessage' = NoMessage
            /\ pending' = pending \cup
                  {Operation("saveBank",
                             IF banksForm.isEditing /\ banksForm.currentEditAccount.id # 0
                             THEN banksForm.currentEditAccount.id ELSE 0,
                             BankDocOfForm(banksForm))}
    /\ UNCHANGED <<banksVars, baseVars, sessionVars, formVars, authVars, message, consoleErrors, storeVars>>

\* Banks: setDoc of handleSaveBank is committed and the handler runs to its end
SaveBankResolve(op) ==
    /\ op \in pending
    /\ op.kind = "saveBank"
    /\ banksStore' = SetDoc(banksStore, IF op.target = 0 THEN nextDocId ELSE op.target,
                            op.data, serverTime)
    /\ nextDocId' = IF op.target = 0 THEN nextDocId + 1 ELSE nextDocId
    /\ creationTick' = IF op.target = 0 THEN Append(creationTick, serverTime) ELSE creationTick
    /\ serverTime' = serverTime + 1
    /\ pending' = Without(pending, op)
    /\ isGlobalLoading' = FALSE
    /\ IF op.mounted
       THEN /\ pageMessage' = IF op.target = 0 THEN Msg("Bank account added successfully!")
                                               ELSE Msg("Bank account updated successfully!")
            /\ banksForm' = BanksFormReset(FALSE)
       ELSE UNCHANGED <<pageMessage, banksForm>>
    /\ UNCHANGED <<bankAccounts, baseVars, sessionVars, formVars, authVars, message, consoleErrors,
                   incomesStore, expensesStore,
                   salaryStore, profileStore>>

\* Banks: setDoc of handleSaveBank is rejected: the catch and finally blocks
SaveBankReject(op, errorMessage) ==
    /\ op \in pending
    /\ op.kind = "saveBank"
    /\ consoleErrors < MaxConsoleErrors
    /\ pending' = Without(pending, op)
    /\ isGlobalLoading' = FALSE
    /\ consoleErrors' = consoleErrors + 1
    /\ pageMessage' = IF op.mounted THEN <<"Error saving bank account: ", errorMessage>>
                                    ELSE pageMessage
    /\ UNCHANGED <<banksVars, baseVars, sessionVars, formVars, authVars, message, storeVars>>

\* the Banks component is not mounted, or has just mounted
BanksInitial ==
    /\ bankAccounts = <<>>
    /\ banksForm = BanksFormReset(FALSE)

\* Banks mounts or unmounts: initial useState values
BanksReset ==
    /\ bankAccounts' = <<>>
    /\ banksForm' = BanksFormReset(FALSE)

\* ------------------------------------------------------------------------
\* Incomes page: the form and its handlers
\* ------------------------------------------------------------------------

\* Incomes: the form as useState initialises it and as resetForm leaves it
IncomesFormReset(showForm) ==
    [showForm |-> showForm, isEditing |-> FALSE, currentEditIncome |-> NoAccount,
     businessName |-> "", industry |-> "", incomeAmount |-> <<>>, incomeDate |-> NoDate]

\* what the user may have typed into the income form
IncomeInputs ==
    {[businessName |-> "Shop", industry |-> "Retail", incomeAmount |-> <<"5", "0">>,
      incomeDate |-> DateAt(At(2024, 1, 2, 0))],
     [businessName |-> "Shop", industry |-> "", incomeAmount |-> <<"5", "0">>,
      incomeDate |-> DateAt(At(2024, 1, 2, 0))],
     [businessName |-> "Shop", industry |-> "Retail", incomeAmount |-> <<>>, incomeDate |-> NoDate],
     [businessName |-> "Shop", industry |-> "Retail", incomeAmount |-> <<"x">>,
      incomeDate |-> DateAt(At(2024, 1, 2, 0))]}

\* Incomes: the onChange handlers of the form's inputs
IncomesType(input) ==
    /\ currentPage = "incomes"
    /\ incomesForm.showForm
    /\ incomesForm' = [incomesForm EXCEPT !.businessName = input.businessName,
                                   !.industry = input.industry,
                                   !.incomeAmount = input.incomeAmount,
                                   !.incomeDate = input.incomeDate]
    /\ incomesForm' # incomesForm
    /\ UNCHANGED <<baseVars, sessionVars, authVars, opVars, storeVars, banksVars>>
    /\ UNCHANGED <<expensesForm, confirmAnswers>>

\* Incomes: the snapshot mapping of one document
IncomeEntryOf(doc) ==
    [doc EXCEPT !.incomeDate = ToDateOrUndefined(@), !.createdAt = ToDateOrUndefined(@)]

\* the entries the Incomes listener maps from the store's documents
IncomesStoreEntries == [i \in 1..Len(incomesStore) |-> IncomeEntryOf(incomesStore[i])]

\* today.toISOString().split('T')[0], and dateValue.toISOString().split('T')[0]:
\* the date input's value, as the instant new Date(value) gives for it
IncomesDateInputOf(t) == DateAt((t \div 24) * 24)

\* Incomes: handleAddIncomeClick
HandleAddIncomeClick ==
    /\ currentPage = "incomes"
    /\ ~incomesForm.showForm
    /\ incomesForm' = [IncomesFormReset(TRUE) EXCEPT !.incomeDate = IncomesDateInputOf(now)]
    /\ pageMessage' = NoMessage
    /\ UNCHANGED <<baseVars, sessionVars, authVars, isGlobalLoading, message, pending, consoleErrors,
                   storeVars, banksVars, expensesForm, confirmAnswers>>

\* Incomes: handleEditIncomeClick(entry); incomeAmount.toString() throws on a
\* missing amount and the handler then sets nothing
HandleEditIncomeClick(entry) ==
    /\ currentPage = "incomes"
    /\ entry.incomeAmount.k # "undef"
    /\ incomesForm' = [showForm |-> TRUE, isEditing |-> TRUE, currentEditIncome |-> entry,
                   businessName |-> entry.businessName, industry |-> entry.industry,
                   incomeAmount |-> String(entry.incomeAmount),
                   incomeDate |-> IF entry.incomeDate.k = "date"
                               THEN IncomesDateInputOf(entry.incomeDate.t) ELSE NoDate]
    /\ pageMessage' = NoMessage
    /\ UNCHANGED <<baseVars, sessionVars, authVars, isGlobalLoading, message, pending, consoleErrors,
                   storeVars, banksVars, expensesForm, confirmAnswers>>

\* Incomes: handleCloseForm
IncomesHandleCloseForm ==
    /\ currentPage = "incomes"
    /\ incomesForm.showForm
    /\ incomesForm' = IncomesFormReset(FALSE)
    /\ pageMessage' = NoMessage
    /\ UNCHANGED <<baseVars, sessionVars, authVars, isGlobalLoading, message, pending, consoleErrors,
                   storeVars, banksVars, expensesForm, confirmAnswers>>

\* handleSaveIncome: the document handed to setDoc
IncomeDocOfForm(form) ==
    [id |-> 0, businessName |-> form.businessName, industry |-> form.industry,
     incomeAmount |-> JsNum(ParseFloat(form.incomeAmount)),
     incomeDate |-> FromDate(form.incomeDate),
     createdAt |-> IF form.isEditing /\ form.currentEditIncome.id # 0
                   THEN CreatedAtOfEdit(form.currentEditIncome.createdAt)
                   ELSE ServerTimestamp,
     lastUpdated |-> ServerTimestamp]

\* Incomes: handleSaveIncome up to its await
HandleSaveIncome ==
    /\ currentPage = "incomes"
    /\ incomesForm.showForm
    /\ IF \/ incomesForm.businessName = "" \/ incomesForm.industry = ""
          \/ incomesForm.incomeAmount = <<>> \/ incomesForm.incomeDate.k # "date"
       THEN /\ pageMessage' = Msg("Please fill in all required fields.")
            /\ UNCHANGED <<isGlobalLoading, pending>>
       ELSE IF IsNaN(ParseFloat(incomesForm.incomeAmount))
       THEN /\ pageMessage' = Msg("Amount must be a valid number.")
            /\ UNCHANGED <<isGlobalLoading, pending>>
       ELSE IF user = NoUser
       THEN /\ pageMessage' = Msg("Firebase or user not initialized. Cannot save data.")
            /\ isGlobalLoading' = FALSE
            /\ UNCHANGED pending
       ELSE /\ Cardinality(pending) < MaxPending
            /\ serverTime + Cardinality(pending) < MaxWrites
            /\ isGlobalLoading' = TRUE
            /\ pageMessage' = NoMessage
            /\ pending' = pending \cup
                  {Operation("saveIncome",
                             IF incomesForm.isEditing /\ incomesForm.currentEditIncome.id # 0
                             THEN incomesForm.currentEditIncome.id ELSE 0,
                             IncomeDocOfForm(incomesForm))}
    /\ UNCHANGED <<baseVars, sessionVars, authVars, message, consoleErrors, storeVars, banksVars,
                   formVars>>

\* Incomes: setDoc of handleSaveIncome is committed and the handler runs to its end
SaveIncomeResolve(op) ==
    /\ op \in pending
    /\ op.kind = "saveIncome"
    /\ incomesStore' = SetDoc(incomesStore, IF op.target = 0 THEN nextDocId ELSE op.target,
                          op.data, serverTime)
    /\ nextDocId' = IF op.target = 0 THEN nextDocId + 1 ELSE nextDocId
    /\ creationTick' = IF op.target = 0 THEN Append(creationTick, serverTime) ELSE creationTick
    /\ serverTime' = serverTime + 1
    /\ pending' = Without(pending, op)
    /\ isGlobalLoading' = FALSE
    /\ IF op.mounted
       THEN /\ pageMessage' = IF op.target = 0 THEN Msg("Income entry added successfully!")
                                               ELSE Msg("Income entry updated successfully!")
            /\ incomesForm' = IncomesFormReset(FALSE)
       ELSE UNCHANGED <<pageMessage, incomesForm>>
    /\ UNCHANGED <<baseVars, sessionVars, authVars, message, consoleErrors, banksVars, banksStore,
                   expensesStore, expensesForm, confirmAnswers,
                   salaryStore, profileStore>>

\* Incomes: setDoc of handleSaveIncome is rejected: the catch and finally blocks
SaveIncomeReject(op, errorMessage) ==
    /\ op \in pending
    /\ op.kind = "saveIncome"
    /\ consoleErrors < MaxConsoleErrors
    /\ pending' = Without(pending, op)
    /\ isGlobalLoading' = FALSE
    /\ consoleErrors' = consoleErrors + 1
    /\ pageMessage' = IF op.mounted THEN <<"Error saving income entry: ", errorMessage>>
                                    ELSE pageMessage
    /\ UNCHANGED <<baseVars, sessionVars, authVars, message, storeVars, banksVars, formVars>>

\* ------------------------------------------------------------------------
\* Expenses page: the form and its handlers
\* ------------------------------------------------------------------------

\* Expenses: the form as useState initialises it and as resetForm leaves it
ExpensesFormReset(showForm) ==
    [showForm |-> showForm, isEditing |-> FALSE, currentEditExpense |-> NoAccount,
     name |-> "", category |-> "", expenseAmount |-> <<>>, expenseDate |-> NoDate]

\* what the user may have typed into the expense form
ExpenseInputs ==
    {[name |-> "Rent", category |-> "Bills", expenseAmount |-> <<"5", "0">>,
      expenseDate |-> DateAt(At(2024, 1, 2, 0))],
     [name |-> "Rent", category |-> "", expenseAmount |-> <<"5", "0">>,
      expenseDate |-> DateAt(At(2024, 1, 2, 0))],
     [name |-> "Rent", category |-> "Bills", expenseAmount |-> <<>>, expenseDate |-> NoDate],
     [name |-> "Rent", category |-> "Bills", expenseAmount |-> <<"x">>,
      expenseDate |-> DateAt(At(2024, 1, 2, 0))]}

\* Expenses: the onChange handlers of the form's inputs
ExpensesType(input) ==
    /\ currentPage = "expenses"
    /\ expensesForm.showForm
    /\ expensesForm' = [expensesForm EXCEPT !.name = input.name,
                                   !.category = input.category,
                                   !.expenseAmount = input.expenseAmount,
                                   !.expenseDate = input.expenseDate]
    /\ expensesForm' # expensesForm
    /\ UNCHANGED <<baseVars, sessionVars, authVars, opVars, storeVars, banksVars>>
    /\ UNCHANGED <<incomesForm, confirmAnswers>>

\* Expenses: the snapshot mapping of one document
ExpenseEntryOf(doc) ==
    [doc EXCEPT !.expenseDate = ToDateOrUndefined(@), !.createdAt = ToDateOrUndefined(@)]

\* the entries the Expenses listener maps from the store's documents
ExpensesStoreEntries == [i \in 1..Len(expensesStore) |-> ExpenseEntryOf(expensesStore[i])]

\* today.toISOString().split('T')[0], and dateValue.toISOString().split('T')[0]:
\* the date input's value, as the instant new Date(value) gives for it
ExpensesDateInputOf(t) == DateAt((t \div 24) * 24)

\* Expenses: handleAddExpenseClick
HandleAddExpenseClick ==
    /\ currentPage = "expenses"
    /\ ~expensesForm.showForm
    /\ expensesForm' = [ExpensesFormReset(TRUE) EXCEPT !.expenseDate = ExpensesDateInputOf(now)]
    /\ pageMessage' = NoMessage
    /\ UNCHANGED <<baseVars, sessionVars, authVars, isGlobalLoading, message, pending, consoleErrors,
                   storeVars, banksVars, incomesForm, confirmAnswers>>

\* Expenses: handleEditExpenseClick(entry); expenseAmount.toString() throws on a
\* missing amount and the handler then sets nothing
HandleEditExpenseClick(entry) ==
    /\ currentPage = "expenses"
    /\ entry.expenseAmount.k # "undef"
    /\ expensesForm' = [showForm |-> TRUE, isEditing |-> TRUE, currentEditExpense |-> entry,
                   name |-> entry.name, category |-> entry.category,
                   expenseAmount |-> String(entry.expenseAmount),
                   expenseDate |-> IF entry.expenseDate.k = "date"
                               THEN ExpensesDateInputOf(entry.expenseDate.t) ELSE NoDate]
    /\ pageMessage' = NoMessage
    /\ UNCHANGED <<baseVars, sessionVars, authVars, isGlobalLoading, message, pending, consoleErrors,
                   storeVars, banksVars, incomesForm, confirmAnswers>>

\* Expenses: handleCloseForm
ExpensesHandleCloseForm ==
    /\ currentPage = "expenses"
    /\ expensesForm.showForm
    /\ expensesForm' = ExpensesFormReset(FALSE)
    /\ pageMessage' = NoMessage
    /\ UNCHANGED <<baseVars, sessionVars, authVars, isGlobalLoading, message, pending, consoleErrors,
                   storeVars, banksVars, incomesForm, confirmAnswers>>

\* handleSaveExpense: the document handed to setDoc
ExpenseDocOfForm(form) ==
    [id |-> 0, name |-> form.name, category |-> form.category,
     expenseAmount |-> JsNum(ParseFloat(form.expenseAmount)),
     expenseDate |-> FromDate(form.expenseDate),
     createdAt |-> IF form.isEditing /\ form.currentEditExpense.id # 0
                   THEN CreatedAtOfEdit(form.currentEditExpense.createdAt)
                   ELSE ServerTimestamp,
     lastUpdated |-> ServerTimestamp]

\* Expenses: handleSaveExpense up to its await
HandleSaveExpense ==
    /\ currentPage = "expenses"
    /\ expensesForm.showForm
    /\ IF \/ expensesForm.name = "" \/ expensesForm.category = ""
          \/ expensesForm.expenseAmount = <<>> \/ expensesForm.expenseDate.k # "date"
       THEN /\ pageMessage' = Msg("Please fill in all required fields.")
            /\ UNCHANGED <<isGlobalLoading, pending>>
       ELSE IF IsNaN(ParseFloat(expensesForm.expenseAmount))
       THEN /\ pageMessage' = Msg("Amount must be a valid number.")
            /\ UNCHANGED <<isGlobalLoading, pending>>
       ELSE IF user = NoUser
       THEN /\ pageMessage' = Msg("Firebase or user not initialized. Cannot save data.")
            /\ isGlobalLoading' = FALSE
            /\ UNCHANGED pending
       ELSE /\ Cardinality(pending) < MaxPending
            /\ serverTime + Cardinality(pending) < MaxWrites
            /\ isGlobalLoading' = TRUE
            /\ pageMessage' = NoMessage
            /\ pending' = pending \cup
                  {Operation("saveExpense",
                             IF expensesForm.isEditing /\ expensesForm.currentEditExpense.id # 0
                             THEN expensesForm.currentEditExpense.id ELSE 0,
                             ExpenseDocOfForm(expensesForm))}
    /\ UNCHANGED <<baseVars, sessionVars, authVars, message, consoleErrors, storeVars, banksVars,
                   formVars>>

\* Expenses: setDoc of handleSaveExpense is committed and the handler runs to its end
SaveExpenseResolve(op) ==
    /\ op \in pending
    /\ op.kind = "saveExpense"
    /\ expensesStore' = SetDoc(expensesStore, IF op.target = 0 THEN nextDocId ELSE op.target,
                          op.data, serverTime)
    /\ nextDocId' = IF op.target = 0 THEN nextDocId + 1 ELSE nextDocId
    /\ creationTick' = IF op.target = 0 THEN Append(creationTick, serverTime) ELSE creationTick
    /\ serverTime' = serverTime + 1
    /\ pending' = Without(pending, op)
    /\ isGlobalLoading' = FALSE
    /\ IF op.mounted
       THEN /\ pageMessage' = IF op.target = 0 THEN Msg("Expense entry added successfully!")
                                               ELSE Msg("Expense entry updated successfully!")
            /\ expensesForm' = ExpensesFormReset(FALSE)
       ELSE UNCHANGED <<pageMessage, expensesForm>>
    /\ UNCHANGED <<baseVars, sessionVars, authVars, message, consoleErrors, banksVars, banksStore,
                   incomesStore, incomesForm, confirmAnswers,
                   salaryStore, profileStore>>

\* SaveExpenseReject without the finally block
SaveExpenseRejectNoFinally(op, errorMessage) ==
    /\ op \in pending
    /\ op.kind = "saveExpense"
    /\ consoleErrors < MaxConsoleErrors
    /\ pending' = Without(pending, op)
    /\ consoleErrors' = consoleErrors + 1
    /\ pageMessage' = IF op.mounted THEN <<"Error saving expense entry: ", errorMessage>>
                                    ELSE pageMessage
    /\ UNCHANGED <<baseVars, sessionVars, authVars, isGlobalLoading, message, storeVars,
                   banksVars, formVars>>

\* Expenses: setDoc of handleSaveExpense is rejected: the catch and finally blocks
SaveExpenseReject(op, errorMessage) ==
    /\ op \in pending
    /\ op.kind = "saveExpense"
    /\ consoleErrors < MaxConsoleErrors
    /\ pending' = Without(pending, op)
    /\ isGlobalLoading' = FALSE
    /\ consoleErrors' = consoleErrors + 1
    /\ pageMessage' = IF op.mounted THEN <<"Error saving expense entry: ", errorMessage>>
                                    ELSE pageMessage
    /\ UNCHANGED <<baseVars, sessionVars, authVars, message, storeVars, banksVars, formVars>>

\* handleDeleteExpense without the confirmation dialog's early return
HandleDeleteExpenseUnconfirmed(expenseId, confirmed) ==
    /\ currentPage = "expenses"
    /\ IF user = NoUser \/ expenseId = 0
       THEN /\ pageMessage' = Msg("User not authenticated or invalid expense ID.")
            /\ UNCHANGED <<isGlobalLoading, pending, confirmAnswers>>
       ELSE /\ Len(confirmAnswers) < MaxConfirms
            /\ confirmAnswers' = Append(confirmAnswers, confirmed)
            /\ Cardinality(pending) < MaxPending
            /\ isGlobalLoading' = TRUE
            /\ pageMessage' = NoMessage
            /\ pending' = pending \cup {Operation("deleteExpense", expenseId, <<>>)}
    /\ UNCHANGED <<baseVars, sessionVars, authVars, message, consoleErrors, storeVars, banksVars,
                   incomesForm, expensesForm>>

\* Expenses: handleDeleteExpense(expenseId) up to its await; confirmed is
\* what window.confirm returns
HandleDeleteExpense(expenseId, confirmed) ==
    /\ currentPage = "expenses"
    /\ IF user = NoUser \/ expenseId = 0
       THEN /\ pageMessage' = Msg("User not authenticated or invalid expense ID.")
            /\ UNCHANGED <<isGlobalLoading, pending, confirmAnswers>>
       ELSE /\ Len(confirmAnswers) < MaxConfirms
            /\ confirmAnswers' = Append(confirmAnswers, confirmed)
            /\ IF confirmed
               THEN /\ Cardinality(pending) < MaxPending
                    /\ isGlobalLoading' = TRUE
                    /\ pageMessage' = NoMessage
                    /\ pending' = pending \cup {Operation("deleteExpense", expenseId, <<>>)}
               ELSE UNCHANGED <<isGlobalLoading, pageMessage, pending>>
    /\ UNCHANGED <<baseVars, sessionVars, authVars, message, consoleErrors, storeVars, banksVars,
                   incomesForm, expensesForm>>

\* Expenses: deleteDoc is committed and the handler runs to its end
DeleteExpenseResolve(op) ==
    /\ op \in pending
    /\ op.kind = "deleteExpense"
    /\ expensesStore' = SelectSeq(expensesStore, LAMBDA d : d.id # op.target)
    /\ pending' = Without(pending, op)
    /\ isGlobalLoading' = FALSE
    /\ pageMessage' = IF op.mounted THEN Msg("Expense entry deleted successfully!")
                                    ELSE pageMessage
    /\ UNCHANGED <<baseVars, sessionVars, authVars, message, consoleErrors, banksVars, formVars,
                   serverTime, nextDocId, banksStore, incomesStore,
                   salaryStore, profileStore, creationTick>>

\* Expenses: deleteDoc is rejected: the catch and finally blocks
DeleteExpenseReject(op, errorMessage) ==
    /\ op \in pending
    /\ op.kind = "deleteExpense"
    /\ consoleErrors < MaxConsoleErrors
    /\ pending' = Without(pending, op)
    /\ isGlobalLoading' = FALSE
    /\ consoleErrors' = consoleErrors + 1
    /\ pageMessage' = IF op.mounted THEN <<"Error deleting expense entry: ", errorMessage>>
                                    ELSE pageMessage
    /\ UNCHANGED <<baseVars, sessionVars, authVars, message, storeVars, banksVars, formVars>>

\* ------------------------------------------------------------------------
\* Subscriptions
\* ------------------------------------------------------------------------

\* the four listeners of the App's data effect
AppSubscriptions == {"App.banks", "App.incomes", "App.expenses", "App.salary"}

\* the listeners the effects of page p register while p is mounted
PageSubscriptions(p) ==
    CASE p = "banks" -> {"Banks"}
      [] p = "incomes" -> {"Incomes"}
      [] p = "expenses" -> {"Expenses"}
      [] p = "salary" -> {"Salary"}
      [] p = "profile" -> {"Profile.incomes", "Profile.expenses"}
      [] p = "history" -> {"History.expenses", "History.incomes", "History.salary"}
      [] OTHER -> {}

\* the listeners whose error callback calls setMessage, and the text it sets
\* before the error's message
ListenerErrorText(sub) ==
    CASE sub = "Banks" -> "Error fetching bank accounts: "
      [] sub = "Incomes" -> "Error fetching income entries: "
      [] sub = "Expenses" -> "Error fetching expense entries: "
      [] sub = "Salary" -> "Error fetching salary data: "
      [] sub = "History.expenses" -> "Error fetching expenses for history: "
      [] sub = "History.incomes" -> "Error fetching incomes for history: "
      [] sub = "History.salary" -> "Error fetching salary details for history: "
      [] OTHER -> ""

\* the error callback of listener sub: console.error, and setMessage where the
\* callback has one
OnSnapshotError(sub, errorMessage) ==
    /\ sub \in subscriptions
    /\ consoleErrors < MaxConsoleErrors
    /\ consoleErrors' = consoleErrors + 1
    /\ pageMessage' = IF ListenerErrorText(sub) # ""
                      THEN <<ListenerErrorText(sub), errorMessage>>
                      ELSE pageMessage
    /\ UNCHANGED <<baseVars, authVars, isGlobalLoading, message, pending, storeVars,
                   banksVars, formVars, sessionVars>>

\* ------------------------------------------------------------------------
\* Salary page: editing and saving
\* ------------------------------------------------------------------------

\* what the user may type into a numeric field of the salary form
SalaryFieldInputs == {JsStr(<<"5", "0", "0">>), EmptyString}

\* Salary: handleInputChange(setter) of a numeric field
SalaryHandleInputChange(field, value) ==
    /\ currentPage = "salary"
    /\ salaryForm' = [salaryForm EXCEPT ![field] = value]
    /\ isActivelyEditing' = TRUE
    /\ UNCHANGED <<monthlyIncome, dailyIncome, totalDeductions, latestSalaryData>>
    /\ UNCHANGED <<extVars, timeVars, currentPage, incomesVars, expensesVars, appVars>>

\* Salary: handleInputChange(setFrequency)
SalaryHandleFrequencyChange(value) ==
    /\ currentPage = "salary"
    /\ salaryForm' = [salaryForm EXCEPT !.frequency = value]
    /\ isActivelyEditing' = TRUE
    /\ UNCHANGED <<monthlyIncome, dailyIncome, totalDeductions, latestSalaryData>>
    /\ UNCHANGED <<extVars, timeVars, currentPage, incomesVars, expensesVars, appVars>>

\* handleCalculateAndSave: salaryData with lastUpdated, from the parsed fields
SalaryData(form, parsedSalary, parsedSss, parsedPhilhealth, parsedPagibig, parsedTax, parsedLoans, parsedVoluntary) ==
    [salary |-> JsNum(parsedSalary),
     frequency |-> form.frequency,
     paydaySpecific |-> JsStr(String(form.paydaySpecific)),
     dayOffInMonth |-> form.dayOffInMonth,
     sss |-> JsNum(parsedSss),
     philhealth |-> JsNum(parsedPhilhealth),
     pagibig |-> JsNum(parsedPagibig),
     tax |-> JsNum(parsedTax),
     loans |-> JsNum(parsedLoans),
     voluntary |-> JsNum(parsedVoluntary),
     lastUpdated |-> ServerTimestamp]

\* Salary: handleCalculateAndSave up to its await
HandleCalculateAndSave ==
    /\ currentPage = "salary"
    /\ IF user = NoUser
       THEN /\ pageMessage' = Msg("Firebase or user not initialized. Cannot save data.")
            /\ isGlobalLoading' = FALSE
            /\ UNCHANGED <<pending, monthlyIncome, dailyIncome, totalDeductions>>
       ELSE /\ Cardinality(pending) < MaxPending
            /\ serverTime + Cardinality(pending) < MaxWrites
            /\ isGlobalLoading' = TRUE
            /\ pageMessage' = NoMessage
            /\ \E c \in {CalculateSalaryOf(salaryForm)} :
                   /\ monthlyIncome' = c.monthlyIncome
                   /\ dailyIncome' = c.dailyIncome
                   /\ totalDeductions' = c.totalDeductions
            /\ \E parsedSalary \in {ParseAmount(salaryForm.salary)},
                  parsedSss \in {ParseAmount(salaryForm.sss)},
                  parsedPhilhealth \in {ParseAmount(salaryForm.philhealth)},
                  parsedPagibig \in {ParseAmount(salaryForm.pagibig)},
                  parsedTax \in {ParseAmount(salaryForm.tax)},
                  parsedLoans \in {ParseAmount(salaryForm.loans)},
                  parsedVoluntary \in {ParseAmount(salaryForm.voluntary)} :
                   pending' = pending \cup
                       {Operation("saveSalary", 0,
                                  SalaryData(salaryForm, parsedSalary, parsedSss,
                                             parsedPhilhealth, parsedPagibig, parsedTax,
                                             parsedLoans, parsedVoluntary))}
    /\ UNCHANGED <<salaryForm, isActivelyEditing, latestSalaryData>>
    /\ UNCHANGED <<timeVars, currentPage, incomesVars, expensesVars, appVars, authVars,
                   message, consoleErrors, storeVars, banksVars, formVars, sessionVars>>

\* handleCalculateAndSave after its await without setIsActivelyEditing(false)
SaveSalaryResolveKeepsEditing(op) ==
    /\ op \in pending
    /\ op.kind = "saveSalary"
    /\ salaryStore' = SalaryDoc([op.data EXCEPT !.lastUpdated = Timestamp(serverTime)])
    /\ serverTime' = serverTime + 1
    /\ pending' = Without(pending, op)
    /\ isGlobalLoading' = FALSE
    /\ pageMessage' = IF op.mounted THEN Msg("Salary data saved successfully!")
                                    ELSE pageMessage
    /\ UNCHANGED isActivelyEditing
    /\ UNCHANGED <<salaryForm, monthlyIncome, dailyIncome, totalDeductions, latestSalaryData>>
    /\ UNCHANGED <<timeVars, currentPage, incomesVars, expensesVars, appVars, authVars,
                   message, consoleErrors, banksVars, formVars, sessionVars, nextDocId,
                   banksStore, incomesStore, expensesStore, profileStore, creationTick>>

\* Salary: setDoc of handleCalculateAndSave is committed and the handler runs
\* to its end
SaveSalaryResolve(op) ==
    /\ op \in pending
    /\ op.kind = "saveSalary"
    /\ salaryStore' = SalaryDoc([op.data EXCEPT !.lastUpdated = Timestamp(serverTime)])
    /\ serverTime' = serverTime + 1
    /\ pending' = Without(pending, op)
    /\ isGlobalLoading' = FALSE
    /\ pageMessage' = IF op.mounted THEN Msg("Salary data saved successfully!")
                                    ELSE pageMessage
    /\ isActivelyEditing' = IF op.mounted THEN FALSE ELSE isActivelyEditing
    /\ UNCHANGED <<salaryForm, monthlyIncome, dailyIncome, totalDeductions, latestSalaryData>>
    /\ UNCHANGED <<timeVars, currentPage, incomesVars, expensesVars, appVars, authVars,
                   message, consoleErrors, banksVars, formVars, sessionVars, nextDocId,
                   banksStore, incomesStore, expensesStore, profileStore, creationTick>>

\* the same user on another device adds an expense: the document is committed
\* under a new id
OtherClientAddExpense(data) ==
    /\ user # NoUser
    /\ serverTime < MaxWrites
    /\ Len(expensesStore) < MaxEntries
    /\ expensesStore' = SetDoc(expensesStore, nextDocId, data, serverTime)
    /\ nextDocId' = nextDocId + 1
    /\ creationTick' = Append(creationTick, serverTime)
    /\ serverTime' = serverTime + 1
    /\ UNCHANGED <<baseVars, authVars, opVars, banksVars, formVars, sessionVars, banksStore,
                   incomesStore, salaryStore, profileStore>>

\* the same user on another device adds an income
OtherClientAddIncome(data) ==
    /\ user # NoUser
    /\ serverTime < MaxWrites
    /\ Len(incomesStore) < MaxEntries
    /\ incomesStore' = SetDoc(incomesStore, nextDocId, data, serverTime)
    /\ nextDocId' = nextDocId + 1
    /\ creationTick' = Append(creationTick, serverTime)
    /\ serverTime' = serverTime + 1
    /\ UNCHANGED <<baseVars, authVars, opVars, banksVars, formVars, sessionVars, banksStore,
                   expensesStore, salaryStore, profileStore>>

\* the same user on another device adds a bank account
OtherClientAddBank(data) ==
    /\ user # NoUser
    /\ serverTime < MaxWrites
    /\ Len(banksStore) < MaxEntries
    /\ banksStore' = SetDoc(banksStore, nextDocId, data, serverTime)
    /\ nextDocId' = nextDocId + 1
    /\ creationTick' = Append(creationTick, serverTime)
    /\ serverTime' = serverTime + 1
    /\ UNCHANGED <<baseVars, authVars, opVars, banksVars, formVars, sessionVars, incomesStore,
                   expensesStore, salaryStore, profileStore>>

\* Salary: handleCalculateAndSave of a second client of the same user, from
\* its start to the commit of its setDoc: the form with one salary typed in
OtherClientSaveSalary(value) ==
    /\ user # NoUser
    /\ serverTime < MaxWrites
    /\ \E parsedSalary \in {ParseAmount(value)} :
           salaryStore' =
               SalaryDoc([SalaryData([InitialSalaryForm EXCEPT !.salary = value], parsedSalary,
                                     Zero, Zero, Zero, Zero, Zero, Zero)
                              EXCEPT !.lastUpdated = Timestamp(serverTime)])
    /\ serverTime' = serverTime + 1
    /\ UNCHANGED <<baseVars, authVars, opVars, banksVars, formVars, sessionVars, nextDocId,
                   banksStore, incomesStore, expensesStore, profileStore, creationTick>>

\* Salary: setDoc of handleCalculateAndSave is rejected: the catch and finally
\* blocks
SaveSalaryReject(op, errorMessage) ==
    /\ op \in pending
    /\ op.kind = "saveSalary"
    /\ consoleErrors < MaxConsoleErrors
    /\ pending' = Without(pending, op)
    /\ isGlobalLoading' = FALSE
    /\ consoleErrors' = consoleErrors + 1
    /\ pageMessage' = IF op.mounted THEN <<"Error saving salary data: ", errorMessage>>
                                    ELSE pageMessage
    /\ UNCHANGED <<baseVars, authVars, message, storeVars, banksVars, formVars, sessionVars>>

\* ------------------------------------------------------------------------
\* Profile page
\* ------------------------------------------------------------------------

\* the profile document: absent, or with the name it holds
NoProfileDoc == [exists |-> FALSE, name |-> "", createdAt |-> NoDate, lastUpdated |-> NoDate]

\* Profile as useState initialises it for a user of display name dn
ProfileMounted(dn) ==
    [isEditing |-> FALSE, userName |-> dn, totalIncomeSummary |-> Zero,
     totalExpensesSummary |-> Zero]

\* Profile is not mounted
ProfileInitial == ProfileMounted("")

\* the names the user may type
NameInputs == {"", "Ana"}

\* Profile: fetchProfileData, getDoc has resolved
ProfileLoadResolve(op) ==
    /\ op \in pending
    /\ op.kind = "loadProfile"
    /\ IF profileStore.exists
       THEN /\ pending' = Without(pending, op)
            /\ isGlobalLoading' = FALSE
            /\ profile' = IF op.mounted
                          THEN [profile EXCEPT !.userName = StrOr(profileStore.name,
                                                                  displayName)]
                          ELSE profile
       ELSE /\ serverTime + Cardinality(pending) <= MaxWrites
            /\ pending' = Without(pending, op) \cup
                              {[op EXCEPT !.kind = "createProfile",
                                          !.data = [name |-> displayName]]}
            /\ UNCHANGED <<isGlobalLoading, profile>>
    /\ UNCHANGED <<baseVars, authVars, message, pageMessage, consoleErrors, storeVars,
                   banksVars, formVars, displayName, historyVars, authPage, subscriptions>>

\* Profile: fetchProfileData, setDoc of the initial profile is committed
ProfileCreateResolve(op) ==
    /\ op \in pending
    /\ op.kind = "createProfile"
    /\ profileStore' = [exists |-> TRUE, name |-> op.data.name,
                        createdAt |-> Timestamp(serverTime), lastUpdated |-> NoDate]
    /\ serverTime' = serverTime + 1
    /\ pending' = Without(pending, op)
    /\ isGlobalLoading' = FALSE
    /\ profile' = IF op.mounted THEN [profile EXCEPT !.userName = op.data.name] ELSE profile
    /\ UNCHANGED <<baseVars, authVars, message, pageMessage, consoleErrors, banksVars,
                   formVars, displayName, historyVars, authPage, subscriptions, nextDocId,
                   banksStore, incomesStore, expensesStore, salaryStore, creationTick>>

\* Profile: fetchProfileData, getDoc or setDoc is rejected: the catch and
\* finally blocks
ProfileLoadReject(op, errorMessage) ==
    /\ op \in pending
    /\ op.kind \in {"loadProfile", "createProfile"}
    /\ consoleErrors < MaxConsoleErrors
    /\ pending' = Without(pending, op)
    /\ isGlobalLoading' = FALSE
    /\ consoleErrors' = consoleErrors + 1
    /\ pageMessage' = IF op.mounted THEN <<"Error loading profile data: ", errorMessage>>
                                    ELSE pageMessage
    /\ UNCHANGED <<baseVars, authVars, message, storeVars, banksVars, formVars, sessionVars>>

\* Profile: handleEditClick
ProfileHandleEditClick ==
    /\ currentPage = "profile"
    /\ ~profile.isEditing
    /\ profile' = [profile EXCEPT !.isEditing = TRUE]
    /\ pageMessage' = NoMessage
    /\ UNCHANGED <<baseVars, authVars, isGlobalLoading, message, pending, consoleErrors,
                   storeVars, banksVars, formVars, displayName, historyVars, authPage,
                   subscriptions>>

\* Profile: the name input's onChange
ProfileType(name) ==
    /\ currentPage = "profile"
    /\ profile.isEditing
    /\ name # profile.userName
    /\ profile' = [profile EXCEPT !.userName = name]
    /\ UNCHANGED <<baseVars, authVars, opVars, storeVars, banksVars, formVars, displayName,
                   historyVars, authPage, subscriptions>>

\* Profile: handleCancelEdit; fetchCurrentSettings calls getDoc
HandleCancelEdit ==
    /\ currentPage = "profile"
    /\ profile.isEditing
    /\ profile' = [profile EXCEPT !.isEditing = FALSE]
    /\ pageMessage' = NoMessage
    /\ IF user = NoUser
       THEN UNCHANGED pending
       ELSE /\ Cardinality(pending) < MaxPending
            /\ pending' = pending \cup
                              {Operation("fetchCurrentSettings", 0, [name |-> ""])}
    /\ UNCHANGED <<baseVars, authVars, isGlobalLoading, message, consoleErrors, storeVars,
                   banksVars, formVars, displayName, historyVars, authPage, subscriptions>>

\* Profile: getDoc of fetchCurrentSettings has resolved, or is rejected; the
\* settings it restores are the notification settings, and a rejection is
\* not caught
FetchCurrentSettingsDone(op) ==
    /\ op \in pending
    /\ op.kind = "fetchCurrentSettings"
    /\ pending' = Without(pending, op)
    /\ UNCHANGED <<baseVars, authVars, isGlobalLoading, message, pageMessage, consoleErrors,
                   storeVars, banksVars, formVars, sessionVars>>

\* Profile: handleSaveChanges up to its first await
HandleSaveChanges ==
    /\ currentPage = "profile"
    /\ profile.isEditing
    /\ IF profile.userName = ""
       THEN /\ pageMessage' = Msg("Name cannot be empty.")
            /\ UNCHANGED <<isGlobalLoading, pending>>
       ELSE IF user = NoUser
       THEN /\ pageMessage' = Msg("Firebase or user not initialized. Cannot save data.")
            /\ isGlobalLoading' = FALSE
            /\ UNCHANGED pending
       ELSE /\ Cardinality(pending) < MaxPending
            /\ serverTime + Cardinality(pending) < MaxWrites
            /\ isGlobalLoading' = TRUE
            /\ pageMessage' = NoMessage
            /\ pending' = pending \cup
                              {Operation("updateProfile", 0, [name |-> profile.userName])}
    /\ UNCHANGED <<baseVars, authVars, message, consoleErrors, storeVars, banksVars,
                   formVars, sessionVars>>

\* Profile: updateProfile of handleSaveChanges has resolved
UpdateProfileResolve(op) ==
    /\ op \in pending
    /\ op.kind = "updateProfile"
    /\ displayName' = op.data.name
    /\ pending' = Without(pending, op) \cup {[op EXCEPT !.kind = "saveProfile"]}
    /\ UNCHANGED <<baseVars, authVars, isGlobalLoading, message, pageMessage, consoleErrors,
                   storeVars, banksVars, formVars, profile, historyVars, authPage,
                   subscriptions>>

\* Profile: setDoc with merge of handleSaveChanges is committed and the
\* handler runs to its end
SaveProfileResolve(op) ==
    /\ op \in pending
    /\ op.kind = "saveProfile"
    /\ profileStore' = [profileStore EXCEPT !.exists = TRUE, !.name = op.data.name,
                                            !.lastUpdated = Timestamp(serverTime)]
    /\ serverTime' = serverTime + 1
    /\ pending' = Without(pending, op)
    /\ isGlobalLoading' = FALSE
    /\ pageMessage' = IF op.mounted THEN Msg("Profile updated successfully!") ELSE pageMessage
    /\ profile' = IF op.mounted THEN [profile EXCEPT !.isEditing = FALSE] ELSE profile
    /\ UNCHANGED <<baseVars, authVars, message, consoleErrors, banksVars, formVars,
                   displayName, historyVars, authPage, subscriptions, nextDocId, banksStore,
                   incomesStore, expensesStore, salaryStore, creationTick>>

\* Profile: updateProfile or setDoc of handleSaveChanges is rejected: the
\* catch and finally blocks
SaveProfileReject(op, errorMessage) ==
    /\ op \in pending
    /\ op.kind \in {"updateProfile", "saveProfile"}
    /\ consoleErrors < MaxConsoleErrors
    /\ pending' = Without(pending, op)
    /\ isGlobalLoading' = FALSE
    /\ consoleErrors' = consoleErrors + 1
    /\ pageMessage' = IF op.mounted THEN <<"Error updating profile: ", errorMessage>>
                                    ELSE pageMessage
    /\ UNCHANGED <<baseVars, authVars, message, storeVars, banksVars, formVars, sessionVars>>

\* Profile: the summary listener of the incomes collection
ProfileIncomesOnSnapshot ==
    /\ currentPage = "profile"
    /\ "Profile.incomes" \in subscriptions
    /\ profile' = [profile EXCEPT
                       !.totalIncomeSummary = IncomesScan(IncomesStoreEntries, 0).currentTotal]
    /\ profile' # profile
    /\ UNCHANGED <<baseVars, authVars, opVars, storeVars, banksVars, formVars, displayName,
                   historyVars, authPage, subscriptions>>

\* Profile: the summary listener of the expenses collection
ProfileExpensesOnSnapshot ==
    /\ currentPage = "profile"
    /\ "Profile.expenses" \in subscriptions
    /\ profile' = [profile EXCEPT !.totalExpensesSummary = ExpensesSum(expensesStore)]
    /\ profile' # profile
    /\ UNCHANGED <<baseVars, authVars, opVars, storeVars, banksVars, formVars, displayName,
                   historyVars, authPage, subscriptions>>

\* ------------------------------------------------------------------------
\* History page
\* ------------------------------------------------------------------------

\* The text of the exported file is a sequence of pieces. A piece is a double
\* quote, a comma, a line feed, or a run of other characters written as one
\* string.
Quote == "\""
Comma == ","
LineFeed == "\n"

\* the text of a name, category or label: the empty text for ''
Text(s) == IF s = "" THEN <<>> ELSE <<s>>

\* Array.prototype.join
RECURSIVE Join(_, _)
Join(texts, sep) ==
    IF texts = <<>> THEN <<>>
    ELSE IF Len(texts) = 1 THEN texts[1]
    ELSE texts[1] \o sep \o Join(Tail(texts), sep)

\* String.prototype.replace(/"/g, '""')
RECURSIVE ReplaceQuotes(_)
ReplaceQuotes(text) ==
    IF text = <<>> THEN <<>>
    ELSE (IF Head(text) = Quote THEN <<Quote, Quote>> ELSE <<Head(text)>>)
             \o ReplaceQuotes(Tail(text))

\* Date.prototype.toLocaleDateString in the en-US locale: month/day/year of
\* the local date
ToLocaleDateString(t, z) ==
    NatToChars(GetMonth(t, z) + 1) \o <<"/">> \o NatToChars(GetDate(t, z))
        \o <<"/">> \o NatToChars(GetFullYear(t, z))

\* the date column: the local date of a Date or a Timestamp, '' for anything else
CsvDate(dt, z) == IF dt.k \in {"date", "ts"} THEN ToLocaleDateString(dt.t, z) ELSE <<>>

\* the row with its fields wrapped in double quotes as they are
CsvRowQuotesKept(row) ==
    Join([i \in 1..Len(row) |-> <<Quote>> \o row[i] \o <<Quote>>], <<Comma>>)

\* row.map(field => `"${String(field).replace(/"/g, '""')}"`).join(',')
CsvRow(row) ==
    Join([i \in 1..Len(row) |-> <<Quote>> \o ReplaceQuotes(row[i]) \o <<Quote>>], <<Comma>>)

\* headers.join(',')
CsvHeaders(headers) == Join([i \in 1..Len(headers) |-> <<headers[i]>>], <<Comma>>)

ExpenseHeaders == <<"ID", "Name", "Category", "Amount", "Date", "Added On">>
IncomeHeaders == <<"ID", "Business Name", "Industry", "Amount", "Date Received", "Added On">>
SalaryHeaders ==
    <<"Gross Salary", "Frequency", "Payday", "Days Off Per Week", "SSS Deduction",
      "Philhealth Deduction", "Pag-ibig Deduction", "Tax Deduction", "Loans Deduction",
      "Voluntary Deduction", "Last Updated">>

\* the fields of one expense, each as the text String(field) gives
ExpenseFields(item, z) ==
    <<NatToChars(item.id), Text(item.name), Text(item.category), String(item.expenseAmount),
      CsvDate(item.expenseDate, z), CsvDate(item.createdAt, z)>>

IncomeFields(item, z) ==
    <<NatToChars(item.id), Text(item.businessName), Text(item.industry),
      String(item.incomeAmount), CsvDate(item.incomeDate, z), CsvDate(item.createdAt, z)>>

SalaryFields(salaryData, z) ==
    <<String(JsOr(salaryData.salary, JsNum(Zero))), Text(salaryData.frequency),
      String(JsOr(salaryData.paydaySpecific, EmptyString)), Text(salaryData.dayOffInMonth),
      String(JsOr(salaryData.sss, JsNum(Zero))), String(JsOr(salaryData.philhealth, JsNum(Zero))),
      String(JsOr(salaryData.pagibig, JsNum(Zero))), String(JsOr(salaryData.tax, JsNum(Zero))),
      String(JsOr(salaryData.loans, JsNum(Zero))), String(JsOr(salaryData.voluntary, JsNum(Zero))),
      CsvDate(salaryData.lastUpdated, z)>>

\* convertToCSV: csvRows, the header row and one row per record
CsvRows(data, type, z) ==
    CASE type = "expenses" ->
             <<CsvHeaders(ExpenseHeaders)>>
                 \o [i \in 1..Len(data) |-> CsvRow(ExpenseFields(data[i], z))]
      [] type = "incomes" ->
             <<CsvHeaders(IncomeHeaders)>>
                 \o [i \in 1..Len(data) |-> CsvRow(IncomeFields(data[i], z))]
      [] type = "salary" ->
             <<CsvHeaders(SalaryHeaders)>>
                 \o (IF data.exists THEN <<CsvRow(SalaryFields(data.data, z))>> ELSE <<>>)

\* convertToCSV: csvRows.join('\n')
ConvertToCSV(data, type, z) == Join(CsvRows(data, type, z), <<LineFeed>>)

\* fullCSVContent without the blank line after a section
FullCSVContentNoBlankLine(h, z) ==
    (IF Len(h.expenses) > 0
     THEN <<"--- Expenses ---", LineFeed>> \o ConvertToCSV(h.expenses, "expenses", z)
              \o <<LineFeed>>
     ELSE <<>>)
    \o (IF Len(h.incomes) > 0
        THEN <<"--- Incomes ---", LineFeed>> \o ConvertToCSV(h.incomes, "incomes", z)
                 \o <<LineFeed>>
        ELSE <<>>)
    \o (IF h.salaryDetails.exists
        THEN <<"--- Salary Details ---", LineFeed>> \o ConvertToCSV(h.salaryDetails, "salary", z)
                 \o <<LineFeed>>
        ELSE <<>>)

\* handleDownloadCSV: fullCSVContent, a section for every collection that is
\* not empty
FullCSVContent(h, z) ==
    (IF Len(h.expenses) > 0
     THEN <<"--- Expenses ---", LineFeed>> \o ConvertToCSV(h.expenses, "expenses", z)
              \o <<LineFeed, LineFeed>>
     ELSE <<>>)
    \o (IF Len(h.incomes) > 0
        THEN <<"--- Incomes ---", LineFeed>> \o ConvertToCSV(h.incomes, "incomes", z)
                 \o <<LineFeed, LineFeed>>
        ELSE <<>>)
    \o (IF h.salaryDetails.exists
        THEN <<"--- Salary Details ---", LineFeed>> \o ConvertToCSV(h.salaryDetails, "salary", z)
                 \o <<LineFeed, LineFeed>>
        ELSE <<>>)

\* History as useState initialises it
HistoryInitial == [expenses |-> <<>>, incomes |-> <<>>, salaryDetails |-> NoSalaryDoc]

\* History: the three listeners' callbacks
HistoryOnSnapshot(sub) ==
    /\ currentPage = "history"
    /\ sub \in subscriptions
    /\ history' = CASE sub = "History.expenses" ->
                           [history EXCEPT !.expenses = ExpensesStoreEntries]
                    [] sub = "History.incomes" ->
                           [history EXCEPT !.incomes = IncomesStoreEntries]
                    [] sub = "History.salary" ->
                           [history EXCEPT !.salaryDetails = salaryStore]
    /\ history' # history
    /\ UNCHANGED download
    /\ UNCHANGED <<baseVars, authVars, opVars, storeVars, banksVars, formVars, profile,
                   displayName, authPage, subscriptions>>

\* History: handleDownloadCSV, which has no await; supported is
\* link.download !== undefined
HandleDownloadCSV(supported) ==
    /\ currentPage = "history"
    /\ \E fullCSVContent \in {FullCSVContent(history, tz)} :
           /\ pageMessage' =
                  IF fullCSVContent = <<>> THEN Msg("No data available to download.")
                  ELSE IF supported THEN Msg("Your data has been downloaded!")
                  ELSE Msg("Your browser does not support downloading files directly.")
           /\ download' = IF fullCSVContent # <<>> /\ supported THEN fullCSVContent
                                                                 ELSE download
    /\ isGlobalLoading' = FALSE
    /\ UNCHANGED <<baseVars, authVars, message, pending, consoleErrors, storeVars,
                   banksVars, formVars, profile, displayName, history, authPage,
                   subscriptions>>

\* ------------------------------------------------------------------------
\* Navigation and the clock
\* ------------------------------------------------------------------------

Pages == {"dashboard", "incomes", "expenses", "salary"}

\* the pages of the Sidebar
AllPages == {"dashboard", "banks", "incomes", "salary", "expenses", "profile", "history"}

\* Auth as useState initialises it
AuthInitial == [isLoginMode |-> TRUE, isLoading |-> FALSE]

\* what renderPage returns for page p: the page, or the critical error while
\* app, auth or db is null
Shown(p) == IF firebase = Initialized THEN p ELSE "CriticalError"

\* the page component shown unmounts, and the component of page p, or none,
\* mounts: the state of each page component is the initial one
MountPage(p) ==
    /\ IF p = "incomes" THEN IncomesMount ELSE IncomesUnmount
    /\ IF p = "expenses" THEN ExpensesMount ELSE ExpensesUnmount
    /\ SalaryReset
    /\ BanksReset
    /\ incomesForm' = IncomesFormReset(FALSE)
    /\ expensesForm' = ExpensesFormReset(FALSE)
    /\ profile' = IF p = "profile" THEN ProfileMounted(displayName) ELSE ProfileInitial
    /\ history' = HistoryInitial
    /\ UNCHANGED download
    /\ authPage' = AuthInitial
    /\ pageMessage' = NoMessage

\* renderPage without its test of app, auth and db
RenderedPageWithoutServicesTest ==
    IF loading THEN "LoadingSpinner"
    ELSE IF user = NoUser THEN "auth"
    ELSE IF currentPage \in AllPages THEN currentPage
    ELSE "dashboard"

\* App.renderPage: what the main area shows
RenderedPage ==
    IF ~firebase.app \/ ~firebase.auth \/ ~firebase.db THEN "CriticalError"
    ELSE IF loading THEN "LoadingSpinner"
    ELSE IF user = NoUser THEN "auth"
    ELSE IF currentPage \in AllPages THEN currentPage
    ELSE "dashboard"

\* Sidebar: setCurrentPage(p); the page shown is unmounted, p is mounted, and
\* Profile's first effect starts fetchProfileData
SetCurrentPage(p) ==
    /\ user # NoUser
    /\ p # currentPage
    /\ Shown(p) = "profile" => Cardinality(pending) < MaxPending
    /\ currentPage' = p
    /\ MountPage(Shown(p))
    /\ subscriptions' = (subscriptions \ PageSubscriptions(Shown(currentPage)))
                            \cup PageSubscriptions(Shown(p))
    /\ IF Shown(p) = "profile"
       THEN /\ pending' = Orphaned(pending) \cup
                              {Operation("loadProfile", 0, [name |-> ""])}
            /\ isGlobalLoading' = TRUE
       ELSE /\ pending' = Orphaned(pending)
            /\ UNCHANGED isGlobalLoading
    /\ UNCHANGED <<authVars, message, consoleErrors, storeVars, timeVars, appVars,
                   confirmAnswers, displayName>>

\* ------------------------------------------------------------------------
\* Authentication
\* ------------------------------------------------------------------------

\* App's data effect without the reset it makes when there is no user
AppDataEffectNoReset(currentUser) ==
    UNCHANGED appVars

\* the App's data effect when user changes: with no user the six figures
\* are reset, with a user they stay until the new listeners call back
AppDataEffect(currentUser) ==
    IF currentUser = NoUser \/ ~firebase.db
    THEN /\ totalBankBalance' = Zero
         /\ totalIncome' = Zero
         /\ totalExpenses' = Zero
         /\ salaryDetails' = NoSalaryDoc
         /\ upcomingIncome' = Zero
         /\ monthlyNetCashFlow' = Zero
         /\ UNCHANGED <<incomesSnapshotDocs, upcomingFresh, banksSnapshotDocs,
                        expensesSnapshotDocs>>
    ELSE UNCHANGED appVars

\* the callback of onAuthStateChanged without its setCurrentPage calls
AuthStateChangedKeepsPage(currentUser) ==
    /\ user' = currentUser
    /\ loading' = FALSE
    /\ currentPage' = currentPage
    /\ MountPage(IF currentUser # NoUser THEN currentPage ELSE "auth")
    /\ subscriptions' = IF currentUser # NoUser THEN AppSubscriptions ELSE {}
    /\ AppDataEffect(currentUser)

\* the callback of onAuthStateChanged, and the render and effects it causes
AuthStateChanged(currentUser) ==
    /\ user' = currentUser
    /\ loading' = FALSE
    /\ currentPage' = IF currentUser # NoUser THEN "dashboard" ELSE "auth"
    /\ MountPage(Shown(IF currentUser # NoUser THEN "dashboard" ELSE "auth"))
    /\ subscriptions' = IF currentUser # NoUser /\ firebase.db THEN AppSubscriptions ELSE {}
    /\ AppDataEffect(currentUser)

\* onAuthStateChanged reports that the session has ended elsewhere, or, at
\* start, that there is no session or a restored one
OnAuthStateChanged(currentUser) ==
    /\ firebase.auth
    /\ currentUser # user \/ loading
    /\ AuthStateChanged(currentUser)
    /\ pending' = Orphaned(pending)
    /\ UNCHANGED <<isGlobalLoading, message, consoleErrors, storeVars, timeVars,
                   confirmAnswers, displayName>>

\* App: closeMessageBox, the close button of the App's message box
CloseMessageBox ==
    /\ message # NoMessage
    /\ message' = NoMessage
    /\ UNCHANGED <<baseVars, authVars, isGlobalLoading, pageMessage, pending, consoleErrors,
                   storeVars, banksVars, formVars, sessionVars>>

\* App: handleLogout up to its await
HandleLogout ==
    /\ user # NoUser
    /\ firebase.auth
    /\ Cardinality(pending) < MaxPending
    /\ isGlobalLoading' = TRUE
    /\ pending' = pending \cup {Operation("logout", 0, [name |-> ""])}
    /\ UNCHANGED <<baseVars, authVars, message, pageMessage, consoleErrors, storeVars,
                   banksVars, formVars, sessionVars>>

\* App: signOut has resolved, after the auth listener was told, and
\* handleLogout runs to its end
LogoutResolve(op) ==
    /\ op \in pending
    /\ op.kind = "logout"
    /\ AuthStateChanged(NoUser)
    /\ pending' = Orphaned(Without(pending, op))
    /\ message' = Msg("Logged out successfully.")
    /\ isGlobalLoading' = FALSE
    /\ UNCHANGED <<consoleErrors, storeVars, timeVars, confirmAnswers, displayName>>

\* App: signOut is rejected: the catch and finally blocks
LogoutReject(op, errorMessage) ==
    /\ op \in pending
    /\ op.kind = "logout"
    /\ consoleErrors < MaxConsoleErrors
    /\ pending' = Without(pending, op)
    /\ message' = <<"Logout failed: ", errorMessage>>
    /\ consoleErrors' = consoleErrors + 1
    /\ isGlobalLoading' = FALSE
    /\ UNCHANGED <<baseVars, authVars, pageMessage, storeVars, banksVars, formVars,
                   sessionVars>>

\* Auth: the toggle between login and sign-up
AuthToggleMode ==
    /\ firebase = Initialized
    /\ ~loading
    /\ user = NoUser
    /\ authPage' = [authPage EXCEPT !.isLoginMode = ~@]
    /\ pageMessage' = NoMessage
    /\ UNCHANGED <<baseVars, authVars, isGlobalLoading, message, pending, consoleErrors,
                   storeVars, banksVars, formVars, profile, displayName, historyVars,
                   subscriptions>>

\* Auth: handleAuth up to its first await
HandleAuth(name) ==
    /\ firebase = Initialized
    /\ ~loading
    /\ user = NoUser
    /\ Cardinality(pending) < MaxPending
    /\ authPage' = [authPage EXCEPT !.isLoading = TRUE]
    /\ pageMessage' = NoMessage
    /\ pending' = pending \cup
                      {Operation(IF authPage.isLoginMode THEN "signIn" ELSE "signUp", 0,
                                 [name |-> name])}
    /\ UNCHANGED <<baseVars, authVars, isGlobalLoading, message, consoleErrors, storeVars,
                   banksVars, formVars, profile, displayName, historyVars, subscriptions>>

\* Auth: signInWithEmailAndPassword or createUserWithEmailAndPassword has
\* resolved, after the auth listener was told; Auth is unmounted by then, and
\* a sign-up goes on with updateProfile and the profile document
HandleAuthResolve(op, currentUser) ==
    /\ op \in pending
    /\ op.kind \in {"signIn", "signUp"}
    /\ user = NoUser
    /\ AuthStateChanged(currentUser)
    /\ pending' = Orphaned(IF op.kind = "signIn"
                           THEN Without(pending, op)
                           ELSE Without(pending, op) \cup
                                    {[op EXCEPT !.kind = "signUpProfile"]})
    /\ displayName' = IF op.kind = "signIn" THEN displayName ELSE ""
    /\ UNCHANGED <<isGlobalLoading, message, consoleErrors, storeVars, timeVars,
                   confirmAnswers>>

\* Auth: updateProfile and setDoc of a sign-up are done
SignUpProfileResolve(op) ==
    /\ op \in pending
    /\ op.kind = "signUpProfile"
    /\ serverTime < MaxWrites + MaxPending
    /\ displayName' = op.data.name
    /\ profileStore' = [exists |-> TRUE, name |-> op.data.name,
                        createdAt |-> Timestamp(serverTime), lastUpdated |-> NoDate]
    /\ serverTime' = serverTime + 1
    /\ pending' = Without(pending, op)
    /\ UNCHANGED <<baseVars, authVars, isGlobalLoading, message, pageMessage, consoleErrors,
                   banksVars, formVars, profile, historyVars, authPage, subscriptions,
                   nextDocId, banksStore, incomesStore, expensesStore, salaryStore,
                   creationTick>>

\* Auth: a call of handleAuth is rejected: the catch and finally blocks
HandleAuthReject(op, errorMessage) ==
    /\ op \in pending
    /\ op.kind \in {"signIn", "signUp", "signUpProfile"}
    /\ consoleErrors < MaxConsoleErrors
    /\ pending' = Without(pending, op)
    /\ consoleErrors' = consoleErrors + 1
    /\ pageMessage' = IF op.mounted THEN Msg(errorMessage) ELSE pageMessage
    /\ authPage' = IF op.mounted THEN [authPage EXCEPT !.isLoading = FALSE] ELSE authPage
    /\ UNCHANGED <<baseVars, authVars, isGlobalLoading, message, storeVars, banksVars,
                   formVars, profile, displayName, historyVars, subscriptions>>

\* time passes
Tick(h) ==
    /\ now + h <= StartInstant + MaxHours
    /\ now' = now + h
    /\ incomesFresh' = FALSE
    /\ expensesFresh' = FALSE
    /\ upcomingFresh' = FALSE
    /\ UNCHANGED <<envVars, currentPage, incomeEntries, incomesFilterPeriod, filteredIncomes,
                   totalFilteredIncome, expenseEntries, expensesFilterPeriod,
                   filteredExpenses, totalFilteredExpense, salaryVars, totalBankBalance,
                   totalIncome, totalExpenses, salaryDetails, upcomingIncome,
                   monthlyNetCashFlow, incomesSnapshotDocs, banksSnapshotDocs,
                   expensesSnapshotDocs, extVars>>

\* ------------------------------------------------------------------------
\* Salary records the store may hold
\* ------------------------------------------------------------------------

\* salary with sss, philhealth, pagibig, tax, loans, voluntary
SalarySamples ==
    {<<JsNum(IntNum(30000)), JsNum(IntNum(1350)), JsNum(IntNum(500)), JsNum(IntNum(200)),
       JsNum(Rat(10003, 4)), JsNum(IntNum(1000)), JsStr(<<"3", "0", "0">>)>>,
     <<JsNum(IntNum(7000)), JsNum(NaN), JsStr(<<"1", "e", "2">>), JsNum(IntNum(-40)),
       JsUndef, EmptyString, JsStr(<<" ", "5", "0", ".", "5", "x">>)>>,
     <<JsStr(<<"1", "2", "3", "4", ".", "5">>), JsNum(PosInf), JsNum(Zero), JsNum(Zero),
       JsStr(<<"x">>), JsNum(Zero), JsNum(NegInf)>>,
     <<JsUndef, JsNum(Zero), JsNum(Zero), JsNum(IntNum(25)), JsNum(Zero), JsNum(Zero),
       JsNum(Zero)>>,
     <<JsStr(StrInfinity), JsNum(IntNum(100)), JsNum(Zero), JsNum(Zero), JsNum(Zero),
       JsNum(Zero), JsNum(Zero)>>,
     <<JsNum(IntNum(500)), JsNum(Zero), JsNum(Zero), JsNum(Zero), JsNum(Zero), JsNum(Zero),
       JsNum(Zero)>>}

FrequencySamples == {"Weekly", "Fortnightly", "Monthly", ""}

DayOffSamples == {"1", "2", ""}

SalaryRecords ==
    {[salary |-> t[1], frequency |-> f, paydaySpecific |-> JsStr(<<"1", "5">>),
      dayOffInMonth |-> o, sss |-> t[2], philhealth |-> t[3], pagibig |-> t[4],
      tax |-> t[5], loans |-> t[6], voluntary |-> t[7]] :
        t \in SalarySamples, f \in FrequencySamples, o \in DayOffSamples}

\* the snapshots the salary document's listeners may be handed
SalarySnapshots == {SalaryDoc(r) : r \in SalaryRecords} \cup {NoSalaryDoc}

\* ------------------------------------------------------------------------
\* Specifications
\* ------------------------------------------------------------------------

\* the App component in zone z with an empty store, no snapshot delivered and
\* no page state: currentUser is the user the auth listener has reported,
\* isLoading tells that it has not been called yet, services are app, auth
\* and db, and text is the App's message
InitServices(z, currentUser, isLoading, services, text) ==
    /\ now = StartInstant
    /\ tz = z
    /\ firebase = services
    /\ currentPage = "dashboard"
    /\ IncomesUnmounted
    /\ ExpensesUnmounted
    /\ SalaryInitial
    /\ AppInitial
    /\ user = currentUser
    /\ loading = isLoading
    /\ isGlobalLoading = FALSE
    /\ message = text
    /\ pageMessage = NoMessage
    /\ pending = {}
    /\ consoleErrors = 0
    /\ serverTime = 1
    /\ nextDocId = 1
    /\ banksStore = <<>>
    /\ BanksInitial
    /\ incomesStore = <<>>
    /\ incomesForm = IncomesFormReset(FALSE)
    /\ expensesStore = <<>>
    /\ expensesForm = ExpensesFormReset(FALSE)
    /\ confirmAnswers = <<>>
    /\ salaryStore = NoSalaryDoc
    /\ profileStore = NoProfileDoc
    /\ creationTick = <<>>
    /\ profile = ProfileInitial
    /\ displayName = ""
    /\ history = HistoryInitial
    /\ download = <<>>
    /\ authPage = AuthInitial
    /\ subscriptions = IF currentUser = NoUser \/ ~services.db THEN {} ELSE AppSubscriptions

\* the App component with the services initialised
InitSession(z, currentUser, isLoading) ==
    InitServices(z, currentUser, isLoading, Initialized, NoMessage)

\* the state after construction and the first run of the auth effect when the
\* start has failed with services f: without auth the effect sets the message
\* and ends loading, with auth it registers the auth listener as usual
InitFailed(f) ==
    IF f.auth
    THEN InitServices(0, NoUser, TRUE, f, NoMessage)
    ELSE InitServices(0, NoUser, FALSE, f,
                      Msg("Firebase Authentication is not initialized. Please check Firebase config and console for errors."))

\* the state in which the operations of a signed-in user start: the auth
\* listener has reported the user and the dashboard is shown
InitZone(z) == InitSession(z, "u1", FALSE)

\* the state after construction: no user yet and the auth listener not yet
\* called
InitStart == InitSession(0, NoUser, TRUE)

Init == \E z \in Zones : InitZone(z)

\* the Incomes and Expenses pages under snapshot pushes, period buttons,
\* navigation and the passage of time
NextPages ==
    \/ \E h \in ClockSteps : Tick(h)
    \/ \E p \in {"dashboard", "incomes", "expenses"} : SetCurrentPage(p)
    \/ \E s \in Snapshots(IncomeDocs) : IncomesOnSnapshot(s)
    \/ \E p \in Periods : IncomesSetFilterPeriod(p)
    \/ \E s \in Snapshots(ExpenseDocs) : ExpensesOnSnapshot(s)
    \/ \E p \in Periods : ExpensesSetFilterPeriod(p)

SpecPages == Init /\ [][NextPages]_vars

\* the Salary page under pushes of the salary document
NextSalary ==
    \/ \E p \in {"dashboard", "salary"} : SetCurrentPage(p)
    \/ \E d \in SalarySnapshots : SalaryOnSnapshot(d)

SpecSalary == Init /\ [][NextSalary]_vars

\* the Incomes and the Salary page re-run on pushes as time passes
NextRerun ==
    \/ Tick(24)
    \/ \E p \in {"dashboard", "incomes", "salary"} : SetCurrentPage(p)
    \/ \E s \in Snapshots(IncomeDocs) : IncomesOnSnapshot(s)
    \/ \E p \in Periods : IncomesSetFilterPeriod(p)
    \/ \E d \in SalarySnapshots : SalaryOnSnapshot(d)

SpecRerun == InitZone(8) /\ [][NextRerun]_vars

\* the App's banks and salary listeners, which feed the Dashboard forecast
NextDash ==
    \/ \E s \in Snapshots(BankDocs) : AppBanksOnSnapshot(s)
    \/ \E d \in SalarySnapshots : AppSalaryOnSnapshot(d)

SpecDash == InitZone(0) /\ [][NextDash]_vars

\* the App's incomes listener under the passage of time
NextUpcoming ==
    \/ \E h \in ClockSteps : Tick(h)
    \/ \E s \in Snapshots(IncomeDocs) : AppIncomesOnSnapshot(s)

SpecUpcoming == Init /\ [][NextUpcoming]_vars

\* the App's banks, incomes and expenses listeners, which feed the totals
NextTotals ==
    \/ \E s \in Snapshots(BankDocs) : AppBanksOnSnapshot(s)
    \/ \E s \in Snapshots(IncomeDocs) : AppIncomesOnSnapshot(s)
    \/ \E s \in Snapshots(ExpenseDocs) : AppExpensesOnSnapshot(s)

SpecTotals == Init /\ [][NextTotals]_vars

\* the forms filled with values that pass validation
ValidBankInputs == {x \in BankInputs : x.bankName = "BPI" /\ x.fullName # ""}
ValidIncomeInputs == {x \in IncomeInputs : x.industry # "" /\ x.incomeAmount = <<"5", "0">>}
ValidExpenseInputs == {x \in ExpenseInputs : x.category # "" /\ x.expenseAmount = <<"5", "0">>}

\* every operation that sets isGlobalLoading, each from its start to its
\* resolution or rejection, under navigation
NextFlag ==
    \/ \E p \in AllPages : SetCurrentPage(p)
    \/ HandleAddBankClick
    \/ \E i \in ValidBankInputs : BanksType(i)
    \/ HandleSaveBank
    \/ \E op \in pending : SaveBankResolve(op)
    \/ \E op \in pending, m \in ErrorMessages : SaveBankReject(op, m)
    \/ HandleAddIncomeClick
    \/ \E i \in ValidIncomeInputs : IncomesType(i)
    \/ HandleSaveIncome
    \/ \E op \in pending : SaveIncomeResolve(op)
    \/ \E op \in pending, m \in ErrorMessages : SaveIncomeReject(op, m)
    \/ HandleAddExpenseClick
    \/ \E i \in ValidExpenseInputs : ExpensesType(i)
    \/ HandleSaveExpense
    \/ \E op \in pending : SaveExpenseResolve(op)
    \/ \E op \in pending, m \in ErrorMessages : SaveExpenseReject(op, m)
    \/ ExpensesOnSnapshot(ExpensesStoreEntries)
    \/ \E i \in 1..Len(expenseEntries), c \in BOOLEAN :
           HandleDeleteExpense(expenseEntries[i].id, c)
    \/ \E op \in pending : DeleteExpenseResolve(op)
    \/ \E op \in pending, m \in ErrorMessages : DeleteExpenseReject(op, m)
    \/ HandleCalculateAndSave
    \/ \E op \in pending : SaveSalaryResolve(op)
    \/ \E op \in pending, m \in ErrorMessages : SaveSalaryReject(op, m)
    \/ \E op \in pending : ProfileLoadResolve(op)
    \/ \E op \in pending : ProfileCreateResolve(op)
    \/ \E op \in pending, m \in ErrorMessages : ProfileLoadReject(op, m)
    \/ ProfileHandleEditClick
    \/ \E n \in NameInputs : ProfileType(n)
    \/ HandleSaveChanges
    \/ \E op \in pending : UpdateProfileResolve(op)
    \/ \E op \in pending : SaveProfileResolve(op)
    \/ \E op \in pending, m \in ErrorMessages : SaveProfileReject(op, m)
    \/ \E b \in BOOLEAN : HandleDownloadCSV(b)
    \/ HandleLogout
    \/ \E op \in pending : LogoutResolve(op)
    \/ \E op \in pending, m \in ErrorMessages : LogoutReject(op, m)

SpecFlag == InitZone(0) /\ [][NextFlag]_vars

\* the Profile page with the dashboard beside it: loading, editing, cancelling
\* and saving the profile, and the errors of its two summary listeners
NextProfile ==
    \/ \E p \in {"dashboard", "profile"} : SetCurrentPage(p)
    \/ \E op \in pending : ProfileLoadResolve(op)
    \/ \E op \in pending : ProfileCreateResolve(op)
    \/ \E op \in pending, m \in ErrorMessages : ProfileLoadReject(op, m)
    \/ ProfileHandleEditClick
    \/ \E n \in NameInputs : ProfileType(n)
    \/ HandleCancelEdit
    \/ \E op \in pending : FetchCurrentSettingsDone(op)
    \/ HandleSaveChanges
    \/ \E op \in pending : UpdateProfileResolve(op)
    \/ \E op \in pending : SaveProfileResolve(op)
    \/ \E op \in pending, m \in ErrorMessages : SaveProfileReject(op, m)
    \/ \E sub \in subscriptions, m \in ErrorMessages : OnSnapshotError(sub, m)

SpecProfile == InitZone(0) /\ [][NextProfile]_vars

\* the three list pages with every form operation: add, edit, type (invalid
\* values included), close, save, delete, and the pages' listeners
NextForms ==
    \/ \E p \in {"banks", "incomes", "expenses"} : SetCurrentPage(p)
    \/ BanksOnSnapshot
    \/ HandleAddBankClick
    \/ \E i \in 1..Len(bankAccounts) : HandleEditBankClick(bankAccounts[i])
    \/ \E i \in BankInputs : BanksType(i)
    \/ BanksHandleCloseForm
    \/ HandleSaveBank
    \/ \E op \in pending : SaveBankResolve(op)
    \/ IncomesOnSnapshot(IncomesStoreEntries)
    \/ HandleAddIncomeClick
    \/ \E i \in 1..Len(incomeEntries) : HandleEditIncomeClick(incomeEntries[i])
    \/ \E i \in IncomeInputs : IncomesType(i)
    \/ IncomesHandleCloseForm
    \/ HandleSaveIncome
    \/ \E op \in pending : SaveIncomeResolve(op)
    \/ ExpensesOnSnapshot(ExpensesStoreEntries)
    \/ HandleAddExpenseClick
    \/ \E i \in 1..Len(expenseEntries) : HandleEditExpenseClick(expenseEntries[i])
    \/ \E i \in ExpenseInputs : ExpensesType(i)
    \/ ExpensesHandleCloseForm
    \/ HandleSaveExpense
    \/ \E op \in pending : SaveExpenseResolve(op)
    \/ \E i \in 1..Len(expenseEntries), c \in BOOLEAN :
           HandleDeleteExpense(expenseEntries[i].id, c)
    \/ \E op \in pending : DeleteExpenseResolve(op)

SpecForms == InitZone(0) /\ [][NextForms]_vars

\* every operation of the list pages, and the Salary page's save: all the
\* operations that write or delete records
NextRecords ==
    \/ NextForms
    \/ SetCurrentPage("salary")
    \/ HandleCalculateAndSave
    \/ \E op \in pending : SaveSalaryResolve(op)

SpecRecords == InitZone(0) /\ [][NextRecords]_vars

\* signing in, signing up, navigating and signing out, from the state after
\* construction
NextAuth ==
    \/ \E u \in {"u1", NoUser} : OnAuthStateChanged(u)
    \/ AuthToggleMode
    \/ \E n \in NameInputs : HandleAuth(n)
    \/ \E op \in pending : HandleAuthResolve(op, "u1")
    \/ \E op \in pending : SignUpProfileResolve(op)
    \/ \E op \in pending, m \in ErrorMessages : HandleAuthReject(op, m)
    \/ \E p \in AllPages : SetCurrentPage(p)
    \/ \E op \in pending : ProfileLoadResolve(op)
    \/ \E op \in pending : ProfileCreateResolve(op)
    \/ HandleLogout
    \/ \E op \in pending : LogoutResolve(op)
    \/ \E op \in pending, m \in ErrorMessages : LogoutReject(op, m)

SpecAuth == InitStart /\ [][NextAuth]_vars

\* a session with its listeners: a bank account and the salary are saved, the
\* App's and the pages' listeners deliver the store's content, the user
\* leaves pages, signs out, or the session ends elsewhere, and signs in again
NextSession ==
    \/ \E p \in {"dashboard", "banks", "salary", "history"} : SetCurrentPage(p)
    \/ HandleAddBankClick
    \/ \E i \in ValidBankInputs : BanksType(i)
    \/ HandleSaveBank
    \/ \E op \in pending : SaveBankResolve(op)
    \/ HandleCalculateAndSave
    \/ \E op \in pending : SaveSalaryResolve(op)
    \/ BanksOnSnapshot
    \/ SalaryOnSnapshot(salaryStore)
    \/ \E sub \in PageSubscriptions("history") : HistoryOnSnapshot(sub)
    \/ AppBanksOnSnapshot(banksStore)
    \/ AppSalaryOnSnapshot(salaryStore)
    \/ HandleLogout
    \/ \E op \in pending : LogoutResolve(op)
    \/ OnAuthStateChanged(NoUser)
    \/ HandleAuth("")
    \/ \E op \in pending : HandleAuthResolve(op, "u1")

SpecSession == InitZone(0) /\ [][NextSession]_vars

\* two writers of the salary record and of a bank account: this client types,
\* saves and edits, a second client saves the salary, and the listeners of
\* the Salary and the Banks page deliver what the store holds
NextMirror ==
    \/ \E p \in {"dashboard", "salary", "banks"} : SetCurrentPage(p)
    \/ \E v \in SalaryFieldInputs : SalaryHandleInputChange("salary", v)
    \/ HandleCalculateAndSave
    \/ \E op \in pending : SaveSalaryResolve(op)
    \/ OtherClientSaveSalary(JsStr(<<"9", "0", "0">>))
    \/ SalaryOnSnapshot(salaryStore)
    \/ HandleAddBankClick
    \/ \E i \in 1..Len(bankAccounts) : HandleEditBankClick(bankAccounts[i])
    \/ \E i \in ValidBankInputs : BanksType(i)
    \/ HandleSaveBank
    \/ \E op \in pending : SaveBankResolve(op)
    \/ BanksOnSnapshot

SpecMirror == InitZone(0) /\ [][NextMirror]_vars

\* a start of the application, with the services initialised or not, and the
\* operations of the App and of Auth that follow
NextStart ==
    \/ NextAuth
    \/ CloseMessageBox

SpecStart == (InitStart \/ \E f \in FailedStarts : InitFailed(f)) /\ [][NextStart]_vars

\* documents to export: a name that is a double quote, whole and fractional
\* amounts, with and without a date
ExportExpenses ==
    {[id |-> 0, name |-> n, category |-> "Bills", expenseAmount |-> JsNum(a),
      expenseDate |-> d, createdAt |-> ServerTimestamp, lastUpdated |-> ServerTimestamp] :
         n \in {"Rent", Quote}, a \in {IntNum(500), Rat(25, 2)},
         d \in {FromDate(DateAt(At(2024, 1, 1, 0))), NoDate}}

ExportIncomes ==
    {[id |-> 0, businessName |-> n, industry |-> "Tech", incomeAmount |-> JsNum(IntNum(50)),
      incomeDate |-> FromDate(DateAt(At(2024, 1, 2, 0))), createdAt |-> ServerTimestamp,
      lastUpdated |-> ServerTimestamp] : n \in {"Acme", Quote}}

\* the History page and its export, with records written from another device
NextExport ==
    \/ \E p \in {"dashboard", "history"} : SetCurrentPage(p)
    \/ \E data \in ExportExpenses : OtherClientAddExpense(data)
    \/ \E data \in ExportIncomes : OtherClientAddIncome(data)
    \/ OtherClientSaveSalary(JsStr(<<"9", "0", "0">>))
    \/ \E sub \in PageSubscriptions("history") : HistoryOnSnapshot(sub)
    \/ \E b \in BOOLEAN : HandleDownloadCSV(b)

SpecExport == (\E z \in Zones : InitZone(z)) /\ [][NextExport]_vars

\* what can be typed into the amount fields, which are number inputs without
\* a minimum: a positive and a negative amount
SignedIncomeInputs ==
    {[businessName |-> "Acme", industry |-> "Tech", incomeAmount |-> a,
      incomeDate |-> DateAt(At(2024, 1, 2, 0))] : a \in {<<"5", "0">>, <<"-", "5">>}}

SignedExpenseInputs ==
    {[name |-> "Rent", category |-> c, expenseAmount |-> a,
      expenseDate |-> DateAt(At(2024, 1, 2, 0))] :
         c \in {"Bills", "Miscellaneous"}, a \in {<<"5", "0">>, <<"-", "5">>}}

\* the Incomes and Expenses pages: adding and editing entries
NextAmounts ==
    \/ \E p \in {"incomes", "expenses"} : SetCurrentPage(p)
    \/ IncomesOnSnapshot(IncomesStoreEntries)
    \/ HandleAddIncomeClick
    \/ \E i \in 1..Len(incomeEntries) : HandleEditIncomeClick(incomeEntries[i])
    \/ \E i \in SignedIncomeInputs : IncomesType(i)
    \/ HandleSaveIncome
    \/ \E op \in pending : SaveIncomeResolve(op)
    \/ ExpensesOnSnapshot(ExpensesStoreEntries)
    \/ HandleAddExpenseClick
    \/ \E i \in 1..Len(expenseEntries) : HandleEditExpenseClick(expenseEntries[i])
    \/ \E i \in SignedExpenseInputs : ExpensesType(i)
    \/ HandleSaveExpense
    \/ \E op \in pending : SaveExpenseResolve(op)

SpecAmounts == InitZone(0) /\ [][NextAmounts]_vars

\* what can be typed into the card number field: nothing, three digits, digits
\* with other characters between them, eight digits, and seventeen digits
CardInputs ==
    {[bankName |-> "BPI", fullName |-> "Ana", cardNumber |-> c, amount |-> <<"1", "0", "0">>] :
        c \in {<<>>, <<"1", "2", "3">>, <<"1", "2", "a", "4">>,
               <<"1", "2", "3", "4", "-", "5", "6", "7", "8">>,
               <<"4", "1", "1", "1", "0", "0", "0", "0">>,
               <<"1", "1", "1", "1", "2", "2", "2", "2", "3", "3", "3", "3", "4", "5", "6", "7",
                 "8">>}}

\* the Banks page: adding and editing accounts
NextCards ==
    \/ \E p \in {"dashboard", "banks"} : SetCurrentPage(p)
    \/ BanksOnSnapshot
    \/ HandleAddBankClick
    \/ \E i \in 1..Len(bankAccounts) : HandleEditBankClick(bankAccounts[i])
    \/ \E i \in CardInputs : BanksType(i)
    \/ BanksHandleCloseForm
    \/ HandleSaveBank
    \/ \E op \in pending : SaveBankResolve(op)

SpecCards == InitZone(0) /\ [][NextCards]_vars

\* bank accounts written from another device: created now, at an earlier
\* time, or without a creation time
OrderBanks ==
    {[id |-> 0, bankName |-> "BPI", fullName |-> "Ana", last4Digits |-> <<"0", "0", "0", "0">>,
      expirationDate |-> "", amount |-> JsNum(IntNum(100)), createdAt |-> c,
      lastUpdated |-> ServerTimestamp] :
         c \in {ServerTimestamp, NoDate, FromDate(DateAt(At(2023, 12, 5, 0))),
                FromDate(DateAt(At(2023, 12, 6, 0)))}}

\* the three list pages and the snapshots pushed to them
NextOrder ==
    \/ \E p \in {"banks", "incomes", "expenses"} : SetCurrentPage(p)
    \/ \E data \in OrderBanks : OtherClientAddBank(data)
    \/ BanksOnSnapshot
    \/ \E s \in Snapshots(IncomeDocs) : IncomesOnSnapshot(s)
    \/ \E s \in Snapshots(ExpenseDocs) : ExpensesOnSnapshot(s)

SpecOrder == InitZone(0) /\ [][NextOrder]_vars

\* the Salary page: typing, saving with either outcome, and snapshots of the
\* user's own saves and of saves from another device
NextEditing ==
    \/ \E p \in {"dashboard", "salary"} : SetCurrentPage(p)
    \/ \E v \in SalaryFieldInputs : SalaryHandleInputChange("salary", v)
    \/ SalaryHandleFrequencyChange("Weekly")
    \/ HandleCalculateAndSave
    \/ \E op \in pending : SaveSalaryResolve(op)
    \/ \E op \in pending : SaveSalaryReject(op, "unavailable")
    \/ OtherClientSaveSalary(JsStr(<<"9", "0", "0">>))
    \/ SalaryOnSnapshot(salaryStore)

SpecEditing == InitZone(0) /\ [][NextEditing]_vars

\* the three form pages with saves that succeed or fail
NextModes ==
    \/ NextForms
    \/ \E op \in pending : SaveBankReject(op, "unavailable")
    \/ \E op \in pending : SaveIncomeReject(op, "unavailable")
    \/ \E op \in pending : SaveExpenseReject(op, "unavailable")

SpecModes == InitZone(0) /\ [][NextModes]_vars

\* the Incomes and Expenses pages in every zone during one day, in steps of
\* eight hours: Add, typing into the fields other than the date, Save
NextToday ==
    \/ now < StartInstant + 24 /\ Tick(8)
    \/ \E p \in {"incomes", "expenses"} : SetCurrentPage(p)
    \/ HandleAddIncomeClick
    \/ \E i \in ValidIncomeInputs : IncomesType([i EXCEPT !.incomeDate = incomesForm.incomeDate])
    \/ HandleSaveIncome
    \/ \E op \in pending : SaveIncomeResolve(op)
    \/ IncomesOnSnapshot(IncomesStoreEntries)
    \/ IncomesSetFilterPeriod("day")
    \/ HandleAddExpenseClick
    \/ \E i \in ValidExpenseInputs : ExpensesType([i EXCEPT !.expenseDate = expensesForm.expenseDate])
    \/ HandleSaveExpense
    \/ \E op \in pending : SaveExpenseResolve(op)
    \/ ExpensesOnSnapshot(ExpensesStoreEntries)
    \/ ExpensesSetFilterPeriod("day")

SpecToday == (\E z \in Zones : InitZone(z)) /\ [][NextToday]_vars

\* every operation modelled
Next ==
    \/ NextPages
    \/ NextSalary
    \/ NextDash
    \/ NextUpcoming
    \/ NextTotals
    \/ NextRerun
    \/ NextFlag
    \/ NextProfile
    \/ NextRecords
    \/ NextAuth
    \/ NextSession
    \/ NextMirror
    \/ NextStart
    \/ NextExport
    \/ NextAmounts
    \/ NextCards
    \/ NextOrder
    \/ NextEditing
    \/ NextModes
    \/ NextToday

Spec == Init /\ [][Next]_vars

\* ------------------------------------------------------------------------
\* Properties
\* ------------------------------------------------------------------------

\* the number an amount stands for: its numeric value, 0 when it is missing
\* or not numeric
AmountOf(v) ==
    LET x == ParseFloat(String(v))
    IN  IF IsNaN(x) THEN Zero ELSE x

\* arithmetic sum of a sequence of amounts
RECURSIVE SumAmounts(_)
SumAmounts(amounts) ==
    IF amounts = <<>> THEN Zero
    ELSE NumAdd(AmountOf(Head(amounts)), SumAmounts(Tail(amounts)))

IncomeAmounts(entries) == [i \in 1..Len(entries) |-> entries[i].incomeAmount]
ExpenseAmounts(entries) == [i \in 1..Len(entries) |-> entries[i].expenseAmount]

\* the calendar date of instant t on the browser's wall clock
LocalDate(t) == CivilFromDays((t + tz) \div 24)

\* 00:00 local time of the Sunday on or before the clock reading
SundayMidnight ==
    LET today == (now + tz) \div 24
    IN  (today - ((today + 4) % 7)) * 24 - tz

\* the date dt falls in the period, as the period is at the clock reading
InPeriod(period, dt) ==
    CASE period = "all" -> TRUE
      [] period = "day" -> dt.k = "date" /\ LocalDate(dt.t) = LocalDate(now)
      [] period = "week" ->
            dt.k = "date" /\ SundayMidnight <= dt.t /\ dt.t < SundayMidnight + 7 * 24
      [] period = "month" ->
            /\ dt.k = "date"
            /\ LocalDate(dt.t).y = LocalDate(now).y
            /\ LocalDate(dt.t).m = LocalDate(now).m
      [] period = "year" -> dt.k = "date" /\ LocalDate(dt.t).y = LocalDate(now).y

IncomesInPeriod(period) ==
    SelectSeq(incomeEntries, LAMBDA e : InPeriod(period, e.incomeDate))
ExpensesInPeriod(period) ==
    SelectSeq(expenseEntries, LAMBDA e : InPeriod(period, e.expenseDate))

\* C1: with period 'all', whatever the clock reads, the filtered list of the
\* Incomes page and of the Expenses page is the list of entries itself, in
\* the same order, and the total shown is the sum of the amounts of all the
\* entries.
C1_AllIsIdentity ==
    /\ (currentPage = "incomes" /\ incomesFilterPeriod = "all") =>
          /\ filteredIncomes = incomeEntries
          /\ totalFilteredIncome = SumAmounts(IncomeAmounts(incomeEntries))
    /\ (currentPage = "expenses" /\ expensesFilterPeriod = "all") =>
          /\ filteredExpenses = expenseEntries
          /\ totalFilteredExpense = SumAmounts(ExpenseAmounts(expenseEntries))

\* period 'all' is selected, some time after the push of two entries, one of
\* them undated, none of them of the current month
C1_Witness ==
    /\ currentPage = "incomes"
    /\ incomesFilterPeriod = "all"
    /\ ~incomesFresh
    /\ Len(incomeEntries) = 2
    /\ \E i \in 1..2 : incomeEntries[i].incomeDate.k = "undef"
    /\ IncomesInPeriod("month") = <<>>
    /\ filteredIncomes = incomeEntries
    /\ totalFilteredIncome # Zero

\* C2: with period 'day', right after the filter has run, an entry is kept
\* exactly when it has a date whose calendar day, month and year are those of
\* the clock reading: an entry dated at the clock reading is kept, an entry
\* dated a day before it is not.
C2_DayKeepsSameCalendarDay ==
    /\ (currentPage = "incomes" /\ incomesFresh /\ incomesFilterPeriod = "day") =>
          /\ filteredIncomes = IncomesInPeriod("day")
          /\ \A i \in 1..Len(incomeEntries) :
                LET dt == incomeEntries[i].incomeDate
                    kept == \E j \in 1..Len(filteredIncomes) :
                                filteredIncomes[j] = incomeEntries[i]
                IN  /\ (dt.k = "date" /\ dt.t = now) => kept
                    /\ (dt.k = "date" /\ dt.t + 24 = now) => ~kept
    /\ (currentPage = "expenses" /\ expensesFresh /\ expensesFilterPeriod = "day") =>
          /\ filteredExpenses = ExpensesInPeriod("day")
          /\ \A i \in 1..Len(expenseEntries) :
                LET dt == expenseEntries[i].expenseDate
                    kept == \E j \in 1..Len(filteredExpenses) :
                                filteredExpenses[j] = expenseEntries[i]
                IN  /\ (dt.k = "date" /\ dt.t = now) => kept
                    /\ (dt.k = "date" /\ dt.t + 24 = now) => ~kept

\* the day filter has just run at a clock reading that is the date of one of
\* two dated entries; that one is kept and the other is not
C2_Witness ==
    /\ currentPage = "incomes"
    /\ incomesFresh
    /\ incomesFilterPeriod = "day"
    /\ Len(incomeEntries) = 2
    /\ \A i \in 1..2 : incomeEntries[i].incomeDate.k = "date"
    /\ Len(filteredIncomes) = 1
    /\ filteredIncomes[1].incomeDate.t = now

\* C3: with period 'week', right after the filter has run, the entries kept
\* are exactly those dated from 00:00 of the Sunday on or before the clock
\* reading (included) to 00:00 of the next Sunday (excluded), on every
\* weekday and also when the week spans the end of a month or of a year.
C3_WeekIsSundayToSunday ==
    /\ (currentPage = "incomes" /\ incomesFresh /\ incomesFilterPeriod = "week") =>
          filteredIncomes = IncomesInPeriod("week")
    /\ (currentPage = "expenses" /\ expensesFresh /\ expensesFilterPeriod = "week") =>
          filteredExpenses = ExpensesInPeriod("week")

\* the week filter has just run on a weekday of January in the week that
\* began in December; of an entry dated exactly at the start of the week and
\* one dated exactly at its end, the first is kept
C3_Witness ==
    /\ currentPage = "incomes"
    /\ incomesFresh
    /\ incomesFilterPeriod = "week"
    /\ LocalDate(now).y = 2024
    /\ LocalDate(SundayMidnight).y = 2023
    /\ Len(incomeEntries) = 2
    /\ \E i \in 1..2 : incomeEntries[i].incomeDate = DateAt(SundayMidnight + 7 * 24)
    /\ Len(filteredIncomes) = 1
    /\ filteredIncomes[1].incomeDate = DateAt(SundayMidnight)

\* C4: on the Incomes and the Expenses page the total stored is always the
\* sum of the amounts of the filtered list stored, a missing or non-numeric
\* amount counting 0, and right after a push or a change of period the
\* filtered list is the entries of the current period, in order.
C4_TotalAndListAgree ==
    /\ currentPage = "incomes" =>
          /\ totalFilteredIncome = SumAmounts(IncomeAmounts(filteredIncomes))
          /\ incomesFresh => filteredIncomes = IncomesInPeriod(incomesFilterPeriod)
    /\ currentPage = "expenses" =>
          /\ totalFilteredExpense = SumAmounts(ExpenseAmounts(filteredExpenses))
          /\ expensesFresh => filteredExpenses = ExpensesInPeriod(expensesFilterPeriod)

\* a period other than the initial one is selected, two entries have been
\* pushed, the period keeps one of them, and an amount that is not a number
\* counts 0 in the total
C4_Witness ==
    /\ currentPage = "expenses"
    /\ expensesFresh
    /\ expensesFilterPeriod = "year"
    /\ Len(expenseEntries) = 2
    /\ Len(filteredExpenses) = 1
    /\ filteredExpenses[1].expenseAmount = JsNum(NaN)
    /\ totalFilteredExpense = Zero

C6_MonthlyAndDailyIncome ==
    (currentPage = "salary" /\ latestSalaryData.exists /\ ~isActivelyEditing) =>
        LET data == latestSalaryData.data
            gross == AmountOf(data.salary)
        IN  /\ data.frequency = "Monthly" => monthlyIncome = gross
            /\ data.frequency = "Weekly" => monthlyIncome = NumMul(gross, Rat(365, 7 * 12))
            /\ data.frequency = "Fortnightly" =>
                  monthlyIncome = NumMul(gross, Rat(365, 14 * 12))
            /\ dailyIncome = NumMul(monthlyIncome,
                                    IF data.dayOffInMonth = "1" THEN Rat(1, 26)
                                                                ELSE Rat(1, 22))
            /\ (data.salary = JsNum(IntNum(7000)) /\ data.frequency = "Weekly"
                /\ data.dayOffInMonth = "1") =>
                  (monthlyIncome = Rat(7000 * 365, 84)
                   /\ dailyIncome = Rat(7000 * 365, 84 * 26))

\* gross 30000, Monthly, 2 days off: monthly income 30000, daily 30000/22
C6_Witness ==
    /\ currentPage = "salary"
    /\ latestSalaryData.exists
    /\ latestSalaryData.data.salary = JsNum(IntNum(30000))
    /\ latestSalaryData.data.frequency = "Monthly"
    /\ latestSalaryData.data.dayOffInMonth = "2"
    /\ monthlyIncome = IntNum(30000)
    /\ dailyIncome = Rat(30000, 22)

\* the finite number an input is to be coerced to: 0 unless it is a finite
\* number or the text of one
CoercedFinite(v) ==
    LET x == ParseFloat(String(v))
    IN  IF IsFinite(x) THEN x ELSE Zero

\* C7: after the push of any salary record the three results are finite
\* numbers, and the total of the deductions is the sum of the six deduction
\* fields, each coerced to a finite number.
C7_ResultsAreFinite ==
    (currentPage = "salary" /\ latestSalaryData.exists /\ ~isActivelyEditing) =>
        LET data == latestSalaryData.data
        IN  /\ IsFinite(monthlyIncome)
            /\ IsFinite(dailyIncome)
            /\ IsFinite(totalDeductions)
            /\ totalDeductions =
                  SumAmounts(<<JsNum(CoercedFinite(data.sss)),
                               JsNum(CoercedFinite(data.philhealth)),
                               JsNum(CoercedFinite(data.pagibig)),
                               JsNum(CoercedFinite(data.tax)),
                               JsNum(CoercedFinite(data.loans)),
                               JsNum(CoercedFinite(data.voluntary))>>)

\* x rounded to 2 decimal places, halves away from zero
Round2(x) ==
    IF ~IsFinite(x) THEN x
    ELSE LET a == IF x.n < 0 THEN -x.n ELSE x.n
             cents == (a \div x.d) * 100 + (200 * (a % x.d) + x.d) \div (2 * x.d)
         IN  Rat((IF x.n < 0 THEN -1 ELSE 1) * cents, 100)

\* C8 as stated: the forecast has 7 points, the first is the bank balance
\* and each later one is the point before it plus the monthly net cash flow,
\* each rounded to 2 decimal places.
C8_EachPointFromThePointBefore ==
    /\ Len(ForecastData) = 7
    /\ ForecastData[1] = Round2(totalBankBalance)
    /\ \A i \in 2..7 :
          ForecastData[i] = Round2(NumAdd(ForecastData[i - 1], monthlyNetCashFlow))

\* C8: the forecast has 7 points, the first is the bank balance and point i
\* is the bank balance plus i times the monthly net cash flow, each rounded
\* to 2 decimal places on its own.
C8_EachPointFromTheUnroundedSum ==
    /\ Len(ForecastData) = 7
    /\ ForecastData[1] = Round2(totalBankBalance)
    /\ \A i \in 1..6 :
          ForecastData[i + 1] =
              Round2(NumAdd(totalBankBalance, NumMul(IntNum(i), monthlyNetCashFlow)))

\* bank balance 1000 and net cash flow 500: 1000, 1500, ..., 4000
C8_Witness ==
    /\ totalBankBalance = IntNum(1000)
    /\ salaryDetails.exists
    /\ monthlyNetCashFlow = IntNum(500)
    /\ ForecastData = <<IntNum(1000), IntNum(1500), IntNum(2000), IntNum(2500),
                        IntNum(3000), IntNum(3500), IntNum(4000)>>

LocalMidnight == ((now + tz) \div 24) * 24 - tz

\* the documents of the incomes listener's last snapshot dated after t
IncomesDatedAfter(t) ==
    SelectSeq(incomesSnapshotDocs,
              LAMBDA doc : doc.incomeDate.k = "date" /\ doc.incomeDate.t > t)

BankAmounts(docs) == [i \in 1..Len(docs) |-> docs[i].amount]

FlagOperations ==
    {"saveBank", "saveIncome", "saveExpense", "deleteExpense", "saveSalary", "loadProfile",
     "createProfile", "updateProfile", "saveProfile", "logout"}

\* operation op, in progress before the step, has run to its end in the step
Finished(op) == \A o \in pending' : o.n # op.n

\* C12: every operation that sets the shared in-progress flag clears it on
\* every path: the step in which such an operation ends, by success, failure
\* or early return, leaves isGlobalLoading false, and isGlobalLoading is never
\* true while no such operation is in progress.
C12_FlagClearedOnEveryPath ==
    [][/\ \A op \in pending :
              op.kind \in FlagOperations /\ Finished(op) => ~isGlobalLoading'
       /\ isGlobalLoading' => \E o \in pending' : o.kind \in FlagOperations]_vars

\* an expense was saved, another operation was rejected, and nothing is in
\* progress any more
C12_Witness ==
    /\ expensesStore # <<>>
    /\ consoleErrors > 0
    /\ pending = {}
    /\ ~isGlobalLoading

\* ---------------------------------------------------------------------------
\* The loading flag and the operations in flight
\* ---------------------------------------------------------------------------

\* the operations that read or write the external store
StoreOperations ==
    {"saveBank", "saveIncome", "saveExpense", "deleteExpense", "saveSalary", "loadProfile",
     "createProfile", "saveProfile", "fetchCurrentSettings", "signUpProfile"}

\* C13: at most one operation that sets and clears the global loading flag is
\* in flight at a time, and the flag is true in every state in which an
\* external-store operation has started and has not yet finished
C13_FlagTrueWhileStoreOperationPending ==
    /\ Cardinality({o \in pending : o.kind \in FlagOperations}) <= 1
    /\ (\E o \in pending : o.kind \in StoreOperations) => isGlobalLoading

\* ---------------------------------------------------------------------------
\* Failures of external calls
\* ---------------------------------------------------------------------------

\* C14: every step in which an external call fails (the failure is logged to
\* the console) leaves a non-empty message on the screen, either the
\* application's message box or the current page's
C14_EveryFailureShowsMessage ==
    [][consoleErrors' > consoleErrors => message' # NoMessage \/ pageMessage' # NoMessage]_vars

\* ---------------------------------------------------------------------------
\* Validation of the bank, income and expense forms
\* ---------------------------------------------------------------------------

\* the form has a required field empty or an amount that parseFloat rejects
InvalidBankForm ==
    \/ banksForm.bankName = "" \/ banksForm.fullName = "" \/ banksForm.amount = <<>>
    \/ IsNaN(ParseFloat(banksForm.amount))

InvalidIncomeForm ==
    \/ incomesForm.businessName = "" \/ incomesForm.industry = ""
    \/ incomesForm.incomeAmount = <<>> \/ incomesForm.incomeDate.k # "date"
    \/ IsNaN(ParseFloat(incomesForm.incomeAmount))

InvalidExpenseForm ==
    \/ expensesForm.name = "" \/ expensesForm.category = ""
    \/ expensesForm.expenseAmount = <<>> \/ expensesForm.expenseDate.k # "date"
    \/ IsNaN(ParseFloat(expensesForm.expenseAmount))

\* the step starts no external call, leaves the store and the loading flag as
\* they were, shows a message and keeps the three forms as they were
RejectedBeforeAnyCall ==
    /\ pending' = pending
    /\ storeVars' = storeVars
    /\ isGlobalLoading' = isGlobalLoading
    /\ pageMessage' # NoMessage
    /\ <<banksForm, incomesForm, expensesForm>>' = <<banksForm, incomesForm, expensesForm>>

\* C15: pressing Save on the bank, income or expense form while a required
\* field is empty or the amount is not numeric starts no external call,
\* writes nothing, does not set the loading flag, shows an error message, and
\* leaves the form open with its field values and edit mode unchanged
C15_ValidationBeforeAnyExternalCall ==
    [][/\ HandleSaveBank /\ InvalidBankForm => RejectedBeforeAnyCall
       /\ HandleSaveIncome /\ InvalidIncomeForm => RejectedBeforeAnyCall
       /\ HandleSaveExpense /\ InvalidExpenseForm => RejectedBeforeAnyCall]_vars

\* an edit form holding a non-numeric amount with the validation message on
\* the screen, no call started and the edited record still as it was saved
C15_Witness ==
    /\ currentPage = "banks"
    /\ banksForm.showForm /\ banksForm.isEditing
    /\ banksForm.amount = <<"x">>
    /\ pageMessage = Msg("Amount must be a valid number.")
    /\ pending = {} /\ ~isGlobalLoading
    /\ Len(banksStore) = 1 /\ banksStore[1].amount = JsNum(ParseFloat(<<"1", "0", "0">>))

\* ---------------------------------------------------------------------------
\* Creation and last-modified timestamps
\* ---------------------------------------------------------------------------

\* the documents a step has written to one collection
Written(store, written) ==
    {written[i] : i \in {j \in 1..Len(written) : \A k \in 1..Len(store) : store[k] # written[j]}}

\* C16: every document that a save writes to the banks, incomes or expenses
\* collection carries the server time of this write as its last-modified
\* timestamp and the server time of the record's creation as its creation
\* timestamp, whether the save is an add or an edit
C16_CreatedAtKeptLastUpdatedRefreshed ==
    [][\A d \in Written(banksStore, banksStore') \cup Written(incomesStore, incomesStore')
                    \cup Written(expensesStore, expensesStore') :
           /\ d.lastUpdated = Timestamp(serverTime)
           /\ d.createdAt = Timestamp(creationTick'[d.id])]_vars

\* ---------------------------------------------------------------------------
\* Removal of records
\* ---------------------------------------------------------------------------

\* the document ids of a collection
Ids(store) == {store[i].id : i \in 1..Len(store)}

\* every variable but the record of the confirmation dialog's answers
varsButConfirmAnswers ==
    <<baseVars, authVars, opVars, storeVars, banksVars, incomesForm, expensesForm, sessionVars>>

\* C17: a step removes a document only from the expenses collection, and only
\* as the commit of a delete operation started after the user confirmed the
\* dialog; a step in which the user declines the dialog starts no operation
\* and changes no state; bank-account ids and income ids only grow and the
\* salary record, once it exists, stays
C17_OnlyConfirmedExpenseDeleteRemoves ==
    [][/\ Ids(banksStore) \subseteq Ids(banksStore')
       /\ Ids(incomesStore) \subseteq Ids(incomesStore')
       /\ salaryStore.exists => salaryStore'.exists
       /\ \A id \in Ids(expensesStore) \ Ids(expensesStore') :
              /\ \E op \in pending \ pending' : op.kind = "deleteExpense" /\ op.target = id
              /\ \E i \in 1..Len(confirmAnswers) : confirmAnswers[i]
       /\ (Len(confirmAnswers') > Len(confirmAnswers) /\ ~confirmAnswers'[Len(confirmAnswers')])
              => UNCHANGED varsButConfirmAnswers]_vars

\* the dialog was declined with the expense on the list, and the expense is
\* still in the store with no operation in flight
C17_Witness ==
    /\ confirmAnswers = <<FALSE>>
    /\ Len(expensesStore) = 1 /\ Len(expenseEntries) = 1
    /\ pending = {} /\ ~isGlobalLoading

\* the dialog was confirmed and the expense is gone, while a bank account
\* saved before is still there
C17_WitnessDeleted ==
    /\ confirmAnswers = <<TRUE>>
    /\ expensesStore = <<>> /\ nextDocId > 2
    /\ Len(banksStore) = 1
    /\ pending = {}

\* ---------------------------------------------------------------------------
\* Authentication and routing
\* ---------------------------------------------------------------------------

\* C18: a step in which the authenticated user changes to a signed-in user
\* makes the dashboard the current page and shows it; a step after which
\* there is no user and the auth listener has been called shows the
\* login/signup view; and no step leads to a state in which one of the seven
\* data pages is shown while there is no authenticated user
C18_AuthStateDrivesRouting ==
    [][/\ (user' # user /\ user' # NoUser)
           => currentPage' = "dashboard" /\ RenderedPage' = "dashboard"
       /\ ((user' # user \/ loading' # loading) /\ user' = NoUser)
           => currentPage' = "auth" /\ RenderedPage' = "auth"
       /\ RenderedPage' \in AllPages => user' # NoUser]_vars

\* the user has signed in again after signing out from another page, and the
\* dashboard is shown with an orphaned profile load still in flight
C18_Witness ==
    /\ user = "u1" /\ RenderedPage = "dashboard"
    /\ message = Msg("Logged out successfully.")
    /\ \E op \in pending : op.kind = "loadProfile" /\ ~op.mounted

\* ---------------------------------------------------------------------------
\* Subscriptions
\* ---------------------------------------------------------------------------

\* C19: the listeners registered are exactly the App's four while a user is
\* signed in and those of the page shown: none of a page that was left, and
\* none at all after sign-out; and while there is no user the dashboard
\* figures are 0 and the salary details empty
C19_SubscriptionsCancelled ==
    /\ subscriptions = IF user = NoUser THEN {}
                       ELSE AppSubscriptions \cup PageSubscriptions(currentPage)
    /\ user = NoUser =>
           /\ totalBankBalance = Zero /\ totalIncome = Zero /\ totalExpenses = Zero
           /\ upcomingIncome = Zero /\ monthlyNetCashFlow = Zero
           /\ salaryDetails = NoSalaryDoc

\* signed out after the App's listeners had delivered a bank balance and the
\* salary record
C19_Witness ==
    /\ user = NoUser
    /\ BanksSum(banksSnapshotDocs) # Zero
    /\ salaryStore.exists
    /\ message = Msg("Logged out successfully.")
    /\ subscriptions = {}

\* ---------------------------------------------------------------------------
\* The client's copy and the store
\* ---------------------------------------------------------------------------

\* the Salary form as a snapshot of the stored record sets it
SalaryFormOfStore == IF salaryStore.exists THEN SalaryFormOf(salaryStore.data) ELSE InitialSalaryForm

\* a step of a listener of the page shown: the page and the user stay
ListenerStep == currentPage' = currentPage /\ user' = user

C21_FailedStartIsFatal ==
    [][firebase # Initialized =>
           /\ RenderedPage = "CriticalError"
           /\ firebase' = firebase
           /\ RenderedPage' = "CriticalError"]_vars

\* the store failed to start but auth did: a restored session has been
\* reported and the user has chosen the Banks page in the sidebar
C21_Witness ==
    /\ firebase \in FailedStarts
    /\ user = "u1" /\ ~loading
    /\ currentPage = "banks"
    /\ RenderedPage = "CriticalError"
    /\ subscriptions = {}

\* ---------------------------------------------------------------------------
\* The exported file
\* ---------------------------------------------------------------------------

\* the lines of a text, split at its line feeds
Lines(text) ==
    LET lf == {i \in 1..Len(text) : text[i] = LineFeed}
        nth(k) == CHOOSE i \in lf : Cardinality({j \in lf : j < i}) = k - 1
        n == Cardinality(lf) + 1
    IN  [k \in 1..n |->
            SubSeq(text, IF k = 1 THEN 1 ELSE nth(k - 1) + 1,
                         IF k = n THEN Len(text) ELSE nth(k) - 1)]

SectionLabels == <<"--- Expenses ---", "--- Incomes ---", "--- Salary Details ---">>

\* the section header lines of a file, in file order
LabelsIn(file) ==
    SelectSeq(Lines(file),
              LAMBDA l : Len(l) = 1 /\ \E i \in 1..3 : l[1] = SectionLabels[i])

\* the labels of the collections of h that hold something, in the order
\* Expenses, Incomes, Salary Details
LabelsOf(h) ==
    (IF h.expenses # <<>> THEN <<<<SectionLabels[1]>>>> ELSE <<>>)
    \o (IF h.incomes # <<>> THEN <<<<SectionLabels[2]>>>> ELSE <<>>)
    \o (IF h.salaryDetails.exists THEN <<<<SectionLabels[3]>>>> ELSE <<>>)

\* the file starts with a section header line, every later header line comes
\* right after a blank line, and every section ends with a blank line
SectionsSeparated(file) ==
    LET ls == Lines(file)
        isLabel(l) == Len(l) = 1 /\ \E i \in 1..3 : l[1] = SectionLabels[i]
    IN  /\ isLabel(ls[1])
        /\ \A k \in 2..Len(ls) : isLabel(ls[k]) => ls[k - 1] = <<>>
        /\ \A k \in 1..Len(ls) - 2 : ls[k] = <<>> => isLabel(ls[k + 1])
        /\ ls[Len(ls)] = <<>> /\ ls[Len(ls) - 1] = <<>>

\* C22: a download saves a file with the three labelled sections Expenses,
\* Incomes and Salary Details in that order, whatever the three collections
\* hold
C22_ThreeSectionsAlways ==
    [][HandleDownloadCSV(TRUE) =>
           /\ download' # <<>>
           /\ LabelsIn(download') = <<<<SectionLabels[1]>>, <<SectionLabels[2]>>,
                                      <<SectionLabels[3]>>>>]_vars

\* C22, amended: a download with something to export saves a file that holds
\* one labelled section for every collection that is not empty, in the order
\* Expenses, Incomes, Salary Details, each headed by its header line and
\* followed by a blank line; with nothing to export no file is saved
C22_SectionsOfNonEmptyCollections ==
    [][HandleDownloadCSV(TRUE) =>
           IF LabelsOf(history) = <<>>
           THEN download' = download
           ELSE /\ LabelsIn(download') = LabelsOf(history)
                /\ SectionsSeparated(download')]_vars

\* a file with the Incomes and Salary Details sections only
C22_Witness ==
    /\ currentPage = "history"
    /\ history.expenses = <<>>
    /\ LabelsIn(download) = <<<<SectionLabels[2]>>, <<SectionLabels[3]>>>>
    /\ LabelsOf(history) = LabelsIn(download)

\* a file with all three sections
C22_WitnessAll == Len(LabelsIn(download)) = 3

\* the fields of a row in which every field is wrapped in double quotes and a
\* double quote inside a field is written twice; ok is FALSE for any other row.
\* mode is "open" before a field, "field" inside one, "closed" after one.
RECURSIVE ReadQuoted(_, _, _, _)
ReadQuoted(s, mode, cur, fields) ==
    IF s = <<>> THEN [ok |-> mode = "closed", fields |-> fields]
    ELSE CASE mode = "open" ->
                  IF Head(s) = Quote THEN ReadQuoted(Tail(s), "field", <<>>, fields)
                  ELSE [ok |-> FALSE, fields |-> fields]
           [] mode = "field" ->
                  IF Head(s) # Quote THEN ReadQuoted(Tail(s), "field", Append(cur, Head(s)), fields)
                  ELSE IF Len(s) > 1 /\ s[2] = Quote
                  THEN ReadQuoted(Tail(Tail(s)), "field", Append(cur, Quote), fields)
                  ELSE ReadQuoted(Tail(s), "closed", <<>>, Append(fields, cur))
           [] mode = "closed" ->
                  IF Head(s) = Comma THEN ReadQuoted(Tail(s), "open", <<>>, fields)
                  ELSE [ok |-> FALSE, fields |-> fields]

\* the rows of the section of a file under a header line: the lines from the
\* header line to the next blank line
SectionRows(file, label) ==
    LET ls == Lines(file)
        at == CHOOSE k \in 1..Len(ls) : ls[k] = <<label>>
        end == CHOOSE k \in at..Len(ls) : ls[k] = <<>> /\ \A j \in at..k - 1 : ls[j] # <<>>
    IN  SubSeq(ls, at + 1, end - 1)

\* rows is the header row of bare names and one quoted row for each of records
HeaderAndQuotedRows(rows, headers, records) ==
    /\ Len(rows) = 1 + Len(records)
    /\ rows[1] = Join([i \in 1..Len(headers) |-> <<headers[i]>>], <<Comma>>)
    /\ \A i \in 1..Len(records) :
           ReadQuoted(rows[i + 1], "open", <<>>, <<>>) = [ok |-> TRUE, fields |-> records[i]]

\* every one of rows, the header row too, has all its fields in double quotes
AllRowsQuoted(rows) == \A i \in 1..Len(rows) : ReadQuoted(rows[i], "open", <<>>, <<>>).ok

\* C23: in every section of a saved file every field of every row, the header
\* row included, is wrapped in double quotes
C23_EveryFieldOfEveryRowQuoted ==
    [][HandleDownloadCSV(TRUE) /\ history.expenses # <<>> =>
           AllRowsQuoted(SectionRows(download', SectionLabels[1]))]_vars

\* C23, amended: every section of a saved file is a header row of bare column
\* names separated by commas, followed by exactly one row per record (one row
\* for the salary record); the fields of a record row are separated by commas,
\* each is wrapped in double quotes with every double quote inside it written
\* twice, so that reading the row back gives the record's fields
C23_HeaderBareRecordRowsQuoted ==
    [][HandleDownloadCSV(TRUE) =>
           /\ history.expenses # <<>> =>
                  HeaderAndQuotedRows(SectionRows(download', SectionLabels[1]), ExpenseHeaders,
                      [i \in 1..Len(history.expenses) |-> ExpenseFields(history.expenses[i], tz)])
           /\ history.incomes # <<>> =>
                  HeaderAndQuotedRows(SectionRows(download', SectionLabels[2]), IncomeHeaders,
                      [i \in 1..Len(history.incomes) |-> IncomeFields(history.incomes[i], tz)])
           /\ history.salaryDetails.exists =>
                  HeaderAndQuotedRows(SectionRows(download', SectionLabels[3]), SalaryHeaders,
                      <<SalaryFields(history.salaryDetails.data, tz)>>)]_vars

\* a saved file with the row of an expense named Rent in category Bills with
\* amount 500, and with the row of a record whose name is a double quote
C23_Witness ==
    /\ download # <<>>
    /\ \E i \in 1..Len(download) - 12 :
           SubSeq(download, i, i + 12) =
               <<Quote, "Rent", Quote, Comma, Quote, "Bills", Quote, Comma,
                 Quote, "5", "0", "0", Quote>>
    /\ \E i \in 1..Len(download) - 5 :
           SubSeq(download, i, i + 5) = <<Comma, Quote, Quote, Quote, Quote, Comma>>

\* ---------------------------------------------------------------------------
\* Amounts and categories of the written entries
\* ---------------------------------------------------------------------------

\* the options of the category select of the expense form
Categories ==
    {"Bills", "Food", "Transportation", "Shopping", "Entertainment", "Health", "Education",
     "Personal Care", "Loans", "Miscellaneous"}

NonNegative(v) == v.k = "num" /\ IsFinite(v.num) /\ v.num.n >= 0

\* C24: every income and every expense the client has written has an amount
\* that is not negative, and every expense has one of the ten categories
C24_AmountsNonNegativeCategoryFixed ==
    /\ \A i \in 1..Len(incomesStore) : NonNegative(incomesStore[i].incomeAmount)
    /\ \A i \in 1..Len(expensesStore) :
           /\ NonNegative(expensesStore[i].expenseAmount)
           /\ expensesStore[i].category \in Categories

\* the part of C24 that holds: the amounts written are finite numbers and the
\* category is one of the ten
C24_AmountsFiniteCategoryFixed ==
    /\ \A i \in 1..Len(incomesStore) :
           incomesStore[i].incomeAmount.k = "num" /\ IsFinite(incomesStore[i].incomeAmount.num)
    /\ \A i \in 1..Len(expensesStore) :
           /\ expensesStore[i].expenseAmount.k = "num"
           /\ IsFinite(expensesStore[i].expenseAmount.num)
           /\ expensesStore[i].category \in Categories

\* an expense of -5 has been written
C24_NegativeWritten ==
    \E i \in 1..Len(expensesStore) : expensesStore[i].expenseAmount = JsNum(IntNum(-5))

\* ---------------------------------------------------------------------------
\* The last four digits of a bank account
\* ---------------------------------------------------------------------------

Sentinel == <<"0", "0", "0", "0">>

FourDigits(s) == Len(s) = 4 /\ \A i \in 1..4 : s[i] \in DigitChars

\* C25: every bank account written has a last4Digits of exactly four digits:
\* a save sends the last four digits of the card number in the form when it
\* has at least four, and "0000" otherwise, also when the account edited was
\* stored with "0000"
C25_Last4DigitsExactlyFour ==
    [][/\ \A i \in 1..Len(banksStore') : FourDigits(banksStore'[i].last4Digits)
       /\ \A op \in pending' \ pending :
              HandleSaveBank =>
                  LET n == Len(banksForm.cardNumber)
                  IN  /\ n <= 16
                      /\ op.data.last4Digits =
                             IF n >= 4 THEN [i \in 1..4 |-> banksForm.cardNumber[n - 4 + i]]
                             ELSE Sentinel]_vars

\* an account stored with "0000" has been edited and saved again
C25_Witness ==
    \E i \in 1..Len(banksStore) :
        /\ banksStore[i].last4Digits = Sentinel
        /\ banksStore[i].lastUpdated # banksStore[i].createdAt

\* an account holds the last four digits of the card number typed with a dash
C25_WitnessTyped ==
    \E i \in 1..Len(banksStore) : banksStore[i].last4Digits = <<"5", "6", "7", "8">>


\* ---------------------------------------------------------------------------
\* The order of the lists
\* ---------------------------------------------------------------------------

\* newest first by creation time, a record without one counting as created at
\* time 0: it comes after every record created later than that
NewestFirst(list) ==
    \A i, j \in 1..Len(list) :
        i < j =>
            /\ GetTimeOrZero(list[i].createdAt) >= GetTimeOrZero(list[j].createdAt)
            /\ list[i].createdAt.k # "date" => ~(list[j].createdAt.k = "date" /\ list[j].createdAt.t > 0)

\* C26: the lists of the Banks, Incomes and Expenses pages are ordered by
\* creation time, newest first, with the records that have no creation time
\* placed as if created at time 0
C26_ListsNewestFirst ==
    /\ NewestFirst(bankAccounts)
    /\ NewestFirst(incomeEntries)
    /\ NewestFirst(expenseEntries)

\* the Banks list after a snapshot whose first document has no creation time:
\* it is shown last
C26_Witness ==
    /\ Len(bankAccounts) = 2
    /\ bankAccounts[1].id > bankAccounts[2].id
    /\ bankAccounts[1].createdAt.k = "date" /\ bankAccounts[1].createdAt.t > 0
    /\ bankAccounts[2].createdAt.k # "date"

\* the Expenses list after a snapshot in which the older entry came first
C26_WitnessExpenses ==
    /\ Len(expenseEntries) = 2
    /\ expenseEntries[1].id > expenseEntries[2].id
    /\ GetTimeOrZero(expenseEntries[1].createdAt) > GetTimeOrZero(expenseEntries[2].createdAt)


\* ---------------------------------------------------------------------------
\* Deleted expenses
\* ---------------------------------------------------------------------------

\* C27: a deleted expense stays deleted: a record that appears in the expenses
\* collection is always a new one, under an id that no record has had before
\* (document ids are handed out in increasing order, so an id below nextDocId
\* that comes back is the id of a deleted record)
C27_DeletedStaysDeleted ==
    [][\A id \in Ids(expensesStore') \ Ids(expensesStore) : id >= nextDocId]_vars

\* the part of C27 that holds: only a save of an edit form brings an id back
C27_OnlySaveOfEditRecreates ==
    [][\A id \in Ids(expensesStore') \ Ids(expensesStore) :
           id < nextDocId =>
               \E op \in pending \ pending' : op.kind = "saveExpense" /\ op.target = id]_vars


\* ---------------------------------------------------------------------------
\* Editing the Salary form
\* ---------------------------------------------------------------------------

\* a save started by the page that is mounted succeeds
SalarySaveSucceeds == \E op \in pending : op.kind = "saveSalary" /\ op.mounted /\ SaveSalaryResolve(op)

SalarySaveFails == \E op \in pending : SaveSalaryReject(op, "unavailable")

C28_WitnessSaved ==
    /\ currentPage = "salary"
    /\ ~isActivelyEditing
    /\ salaryStore.exists /\ latestSalaryData = salaryStore
    /\ salaryStore.data.salary = JsNum(IntNum(500))
    /\ salaryForm = SalaryFormOfStore


\* ---------------------------------------------------------------------------
\* Edit mode of the forms
\* ---------------------------------------------------------------------------

\* edit mode only with the form shown and a record selected
EditModeConsistent ==
    /\ banksForm.isEditing => banksForm.showForm /\ banksForm.currentEditAccount # NoAccount
    /\ incomesForm.isEditing => incomesForm.showForm /\ incomesForm.currentEditIncome # NoAccount
    /\ expensesForm.isEditing =>
           expensesForm.showForm /\ expensesForm.currentEditExpense # NoAccount

\* the form is closed, its fields are empty and edit mode is off
BanksFormClosed ==
    /\ ~banksForm.showForm /\ ~banksForm.isEditing /\ banksForm.currentEditAccount = NoAccount
    /\ banksForm.bankName = "" /\ banksForm.fullName = "" /\ banksForm.cardNumber = <<>>
    /\ banksForm.expirationDate = "" /\ banksForm.amount = <<>>

IncomesFormClosed ==
    /\ ~incomesForm.showForm /\ ~incomesForm.isEditing
    /\ incomesForm.currentEditIncome = NoAccount
    /\ incomesForm.businessName = "" /\ incomesForm.industry = ""
    /\ incomesForm.incomeAmount = <<>> /\ incomesForm.incomeDate = NoDate

ExpensesFormClosed ==
    /\ ~expensesForm.showForm /\ ~expensesForm.isEditing
    /\ expensesForm.currentEditExpense = NoAccount
    /\ expensesForm.name = "" /\ expensesForm.category = ""
    /\ expensesForm.expenseAmount = <<>> /\ expensesForm.expenseDate = NoDate

\* a save started by the mounted page has succeeded
SaveSucceeds(kind) ==
    \E op \in pending \ pending' : op.kind = kind /\ op.mounted /\ serverTime' = serverTime + 1

\* C29: on the Banks, Incomes and Expenses pages edit mode is on only while
\* the form is shown and a record to edit is selected, before and after every
\* step; after Cancel/Close and after a successful save the form is closed,
\* its fields are empty and edit mode is off
C29_EditModeOnlyWithFormAndRecord ==
    [][/\ EditModeConsistent /\ EditModeConsistent'
       /\ (BanksHandleCloseForm \/ SaveSucceeds("saveBank")) => BanksFormClosed'
       /\ (IncomesHandleCloseForm \/ SaveSucceeds("saveIncome")) => IncomesFormClosed'
       /\ (ExpensesHandleCloseForm \/ SaveSucceeds("saveExpense")) => ExpensesFormClosed']_vars

\* an edit of a bank account has been saved: the form is closed and empty
C29_Witness ==
    /\ currentPage = "banks"
    /\ pending = {}
    /\ \E i \in 1..Len(banksStore) : banksStore[i].lastUpdated # banksStore[i].createdAt
    /\ BanksFormClosed

\* the expense form is in edit mode
C29_WitnessEditing ==
    /\ currentPage = "expenses"
    /\ expensesForm.isEditing /\ expensesForm.showForm
    /\ expensesForm.currentEditExpense.id # 0


\* ---------------------------------------------------------------------------
\* The default date of the Add forms
\* ---------------------------------------------------------------------------

\* the Add form is saved with the date it pre-fills for the present moment
SavesIncomeOfToday ==
    /\ HandleSaveIncome
    /\ ~incomesForm.isEditing
    /\ incomesForm.incomeDate = IncomesDateInputOf(now)

SavesExpenseOfToday ==
    /\ HandleSaveExpense
    /\ ~expensesForm.isEditing
    /\ expensesForm.expenseDate = ExpensesDateInputOf(now)

\* C30: an income or expense saved with the default date of the Add form is
\* kept by the Day filter evaluated at the moment of the save, in every zone
\* and at every time of day
C30_DefaultDateIsToday ==
    [][/\ SavesIncomeOfToday =>
              \A op \in pending' \ pending :
                  IncomesFilter(<<IncomeEntryOf(op.data)>>, "day", now, tz) # <<>>
       /\ SavesExpenseOfToday =>
              \A op \in pending' \ pending :
                  ExpensesFilter(<<ExpenseEntryOf(op.data)>>, "day", now, tz) # <<>>]_vars

\* the part of C30 that holds: in the UTC zone the entry is kept by the Day
\* filter at every time of day
C30_DefaultDateIsTodayInUTC ==
    [][tz = 0 =>
           /\ SavesIncomeOfToday =>
                  \A op \in pending' \ pending :
                      IncomesFilter(<<IncomeEntryOf(op.data)>>, "day", now, tz) # <<>>
           /\ SavesExpenseOfToday =>
                  \A op \in pending' \ pending :
                      ExpensesFilter(<<ExpenseEntryOf(op.data)>>, "day", now, tz) # <<>>]_vars

\* an income saved with the default date has been delivered to the Incomes
\* page, whose Day filter leaves it out
C30_SavedTodayNotShown ==
    /\ currentPage = "incomes"
    /\ incomesFilterPeriod = "day" /\ incomesFresh
    /\ Len(incomeEntries) = 1
    /\ incomeEntries[1].incomeDate = IncomesDateInputOf(now)
    /\ filteredIncomes = <<>>

====
